---- MODULE Spec2Model ----
(***************************************************************************)
(* Paywise backend: the balance netting engine (utils/settleUpScheduler)   *)
(* and the Splitwise migration pipeline (routes/splitwise), as state       *)
(* machines over the ledger store (users, groups, expenses).               *)
(*                                                                         *)
(* An amount of a request body or of a stored document is written as the   *)
(* integer count of its thousandths (0.014 is 14, the literals 0.005 and   *)
(* 0.01 of the code are 5 and 10).  The arithmetic of the code on amounts  *)
(* is that of IEEE 754 doubles: Number(k) is the double of k/1000, and     *)
(* Plus, Minus and Gt are +, - and > on doubles (section Numbers).         *)
(***************************************************************************)
EXTENDS Integers, Sequences, FiniteSets, TLC

VARIABLES
    \* ---- balance netting engine (one call of the pure functions) ----
    bMembers,      \* allMembers: the member list handed to computeBalances
    bActive,       \* how many of them, from the front, are group.members
    bExpenses,     \* the expense list handed to computeBalances
    bPhase,        \* "input" | "computed" | "summarised"
    pairwise,      \* the matrix returned by computeBalances
    renetted,      \* the matrix after one more netting pass over pairwise
    summaries,     \* member -> buildMemberSummary(member, pairwise, members)
    mailBodies,    \* member -> what buildEmailBody says of the member's summary
    job,           \* the daily settle-up job: position, groups found, sends
    \* ---- ledger store ----
    userDb,        \* user id -> [splitwiseToken, splitwiseMigrationStatus]
    groupDb,       \* sequence of Group documents, _id = index
    expenseDb,     \* sequence of Expense documents, _id = index
    \* ---- foreign ledger (Splitwise), stable during a behaviour ----
    swGroups,      \* the groups get_groups returns
    swExpenses,    \* position of a group in swGroups -> the group's expenses that
                   \* are not soft-deleted filler, in the order get_expenses lists them
    swDeleted,     \* position of a group in swGroups -> how many soft-deleted
                   \* expenses get_expenses lists ahead of those
    \* ---- migration requests ----
    runs,          \* request slot -> the request's position and locals
    \* ---- accounts and the requests of the other routes ----
    accounts,      \* user id -> the identity fields of the User document
    sessions,      \* the user ids that hold a signed token
    calls,         \* request slot -> the request's position and locals
    clock          \* Date.now() of the server: milliseconds, counted from
                   \* 2024-01-01T00:00:00.000Z

balVars == <<bMembers, bActive, bExpenses, bPhase, pairwise, renetted, summaries,
            mailBodies, job>>

storeVars == <<userDb, groupDb, expenseDb>>

swVars == <<swGroups, swExpenses, swDeleted>>

migVars == <<userDb, groupDb, expenseDb, swGroups, swExpenses, swDeleted, runs>>

apiVars == <<accounts, sessions, calls, clock>>

vars == <<bMembers, bActive, bExpenses, bPhase, pairwise, renetted, summaries, mailBodies,
          job, userDb, groupDb, expenseDb, swGroups, swExpenses, swDeleted, runs,
          accounts, sessions, calls, clock>>

----------------------------------------------------------------------------
(* Bounds of the model *)

MaxBalExpenses == 2     \* expenses in one computeBalances call
MaxSplits == 2          \* splits of one expense
MaxRuns == 2            \* migration requests in one behaviour
MaxSwGroups == 2        \* foreign groups of the migrating identity
MaxSwExpenses == 2      \* foreign expenses over all foreign groups
MaxCalls == 2           \* request slots of the routes behind the auth middleware
MaxVisitors == 2        \* request slots of the routes without it
MaxGroups == 2          \* groups that POST /api/groups may bring the store to
MaxExpenses == 2        \* expenses that POST /api/expenses may bring the store to
MaxFriendExpenses == 3  \* expenses stored before the friend views are asked

(* Program constants *)

SummaryThreshold == 5   \* amount > 0.005 in buildMemberSummary, in thousandths
BalanceEpsilon == 10    \* Math.abs(userBalance) > 0.01 in POST /:id/leave, in thousandths
ExpenseLimit == 500     \* get_expenses?limit=500 in runMigration

----------------------------------------------------------------------------
(* Input domains *)

Users == {"u1", "u2", "u3"}

\* 0.009 and 0.014: 0.014 - 0.009 is the double 0.005000000000000001, above
\* the threshold 0.005, and 0.009 + 0.009 - 0.014 is below it
BalAmounts == {9, 14}

NoMatrix == <<>>

SeqsUpTo(S, n) == UNION {[1..k -> S] : k \in 0..n}

\* member lists: the distinct users of a group, in any order
MemberLists ==
    {m \in UNION {[1..k -> Users] : k \in 2..Cardinality(Users)} :
        \A i, j \in DOMAIN m : i # j => m[i] # m[j]}

SplitRecs == [user : Users, amount : BalAmounts]

BalExpenseRecs == [paidBy : Users, splits : SeqsUpTo(SplitRecs, MaxSplits)]

Range(s) == {s[i] : i \in DOMAIN s}

----------------------------------------------------------------------------
(* Numbers *)

\* A Number of the program is an IEEE 754 double.  The doubles the amounts
\* of the model run over are whole multiples of 2^-62 below 2^18 in magnitude
\* (every k/1000 with k >= 1 rounds to one, and sums and differences of such
\* doubles are such doubles again), so a double is held exactly as
\*     [neg |-> sign, mag |-> <<d1, d2, d3, d4>>]
\* whose magnitude is (d1 + d2*2^20 + d3*2^40 + d4*2^60) * 2^-62, every digit
\* below 2^20.  Zero is held without a sign.
Base == 2^20

Zero == [neg |-> FALSE, mag |-> <<0, 0, 0, 0>>]

\* the sum of two magnitudes before it is rounded
ExactPlus(a, b) ==
    LET s1 == a[1] + b[1]
        s2 == a[2] + b[2] + s1 \div Base
        s3 == a[3] + b[3] + s2 \div Base
        s4 == a[4] + b[4] + s3 \div Base
    IN  <<s1 % Base, s2 % Base, s3 % Base, s4>>

\* the difference a - b of two magnitudes, a >= b, before it is rounded
ExactMinus(a, b) ==
    LET d1 == a[1] - b[1]
        d2 == a[2] - b[2] - (IF d1 < 0 THEN 1 ELSE 0)
        d3 == a[3] - b[3] - (IF d2 < 0 THEN 1 ELSE 0)
        d4 == a[4] - b[4] - (IF d3 < 0 THEN 1 ELSE 0)
    IN  <<d1 % Base, d2 % Base, d3 % Base, d4>>

\* a > b on magnitudes
MagGreater(a, b) ==
    \E i \in 1..4 : a[i] > b[i] /\ \A j \in (i + 1)..4 : a[j] = b[j]

\* round to nearest, ties to even, to the 53 significant bits of a double:
\* below is what was cut off under the last digit of n (0 nothing, 1 less
\* than half a unit, 2 half a unit, 3 more); bits(x) is the number of binary
\* digits of a digit x
Round53(n, below) ==
    LET few(x) == IF x < 4 THEN (IF x = 0 THEN 0 ELSE IF x = 1 THEN 1 ELSE 2)
                  ELSE IF x < 8 THEN 3 ELSE IF x < 16 THEN 4 ELSE 5
        some(x) == IF x < 32 THEN few(x) ELSE 5 + few(x \div 32)
        bits(x) == IF x < 1024 THEN some(x) ELSE 10 + some(x \div 1024)
        length == IF n[4] > 0 THEN 60 + bits(n[4])
                  ELSE IF n[3] > 0 THEN 40 + bits(n[3])
                  ELSE IF n[2] > 0 THEN 20 + bits(n[2])
                  ELSE bits(n[1])
        s == length - 53
    IN  IF s <= 0
        THEN IF below = 3 \/ (below = 2 /\ n[1] % 2 = 1)
             THEN ExactPlus(n, <<1, 0, 0, 0>>) ELSE n
        ELSE IF s <= 20
        THEN LET q == 2^s
                 low == n[1] % q
                 half == q \div 2
                 odd == IF s = 20 THEN n[2] % 2 = 1 ELSE (n[1] \div q) % 2 = 1
                 kept == <<n[1] - low, n[2], n[3], n[4]>>
             IN  IF low > half \/ (low = half /\ (below > 0 \/ odd))
                 THEN ExactPlus(kept, <<q, 0, 0, 0>>) ELSE kept
        ELSE LET q == 2^(s - 20)
                 low == n[2] % q
                 half == q \div 2
                 odd == (n[2] \div q) % 2 = 1
                 kept == <<0, n[2] - low, n[3], n[4]>>
             IN  IF low > half
                    \/ (low = half /\ (n[1] > 0 \/ below > 0 \/ odd))
                 THEN ExactPlus(kept, <<0, q, 0, 0>>) ELSE kept

\* the double of the decimal k/1000 (a number of a request body or of a
\* stored document, or a literal of the code such as 0.005)
Number(k) ==
    LET a == IF k < 0 THEN 0 - k ELSE k
        c4 == 4 * a
        c3 == (c4 % 1000) * Base
        c2 == (c3 % 1000) * Base
        c1 == (c2 % 1000) * Base
        r == c1 % 1000
    IN  IF k = 0 THEN Zero
        ELSE [neg |-> k < 0,
              mag |-> Round53(<<c1 \div 1000, c2 \div 1000, c3 \div 1000,
                                c4 \div 1000>>,
                              IF r = 0 THEN 0 ELSE IF 2 * r < 1000 THEN 1
                              ELSE IF 2 * r = 1000 THEN 2 ELSE 3)]

\* x + y
Plus(x, y) ==
    IF x.neg = y.neg
    THEN [neg |-> x.neg, mag |-> Round53(ExactPlus(x.mag, y.mag), 0)]
    ELSE IF MagGreater(x.mag, y.mag)
    THEN [neg |-> x.neg, mag |-> Round53(ExactMinus(x.mag, y.mag), 0)]
    ELSE IF MagGreater(y.mag, x.mag)
    THEN [neg |-> y.neg, mag |-> Round53(ExactMinus(y.mag, x.mag), 0)]
    ELSE Zero

\* x - y
Minus(x, y) ==
    Plus(x, IF y = Zero THEN Zero ELSE [y EXCEPT !.neg = ~@])

\* x > y
Gt(x, y) ==
    IF x.neg = y.neg
    THEN IF x.neg THEN MagGreater(y.mag, x.mag) ELSE MagGreater(x.mag, y.mag)
    ELSE y.neg

\* Math.abs(x)
MathAbs(x) == [x EXCEPT !.neg = FALSE]

\* x.toFixed(2) of a double that is not negative, as the number of cents it
\* prints: the integer n with n/100 nearest the exact value of x, the larger
\* of the two when x is halfway
ToFixed2(x) ==
    LET t1 == x.mag[1] * 100
        t2 == x.mag[2] * 100 + t1 \div Base
        t3 == x.mag[3] * 100 + t2 \div Base
        t4 == x.mag[4] * 100 + t3 \div Base
    IN  t4 \div 4 + (IF t4 % 4 >= 2 THEN 1 ELSE 0)

\* the literals 0.005 of buildMemberSummary and 0.01 of POST /:id/leave
Threshold == Number(SummaryThreshold)

Epsilon == Number(BalanceEpsilon)

----------------------------------------------------------------------------
(* computeBalances *)

\* pairwise[a][b] || 0
Entry(pw, a, b) ==
    IF a \in DOMAIN pw /\ b \in DOMAIN pw[a] THEN pw[a][b] ELSE Zero

\* pairwise[a][b] = v  (creates the key b of row a when it is absent)
SetEntry(pw, a, b, v) ==
    [pw EXCEPT ![a] = [o \in (DOMAIN pw[a]) \cup {b} |->
                          IF o = b THEN v ELSE pw[a][o]]]

\* the zero matrix over every ordered pair of distinct members
InitMatrix(members) ==
    [m \in Range(members) |-> [o \in Range(members) \ {m} |-> Zero]]

\* mutant: a payer outside the member list gets a key in the debtor's row
AddSplitUnguarded(pw, creditorId, split) ==
    LET debtorId == split.user IN
    IF debtorId # creditorId /\ debtorId \in DOMAIN pw
    THEN SetEntry(pw, debtorId, creditorId,
                  Plus(Entry(pw, debtorId, creditorId), Number(split.amount)))
    ELSE pw

\* mutant: the split amount is booked as owed by the payer to the split user
AddSplitReversed(pw, creditorId, split) ==
    LET debtorId == split.user IN
    IF /\ debtorId # creditorId
       /\ debtorId \in DOMAIN pw
       /\ creditorId \in DOMAIN pw[debtorId]
    THEN [pw EXCEPT ![creditorId][debtorId] = Plus(@, Number(split.amount))]
    ELSE pw

\* one split of an expense paid by creditorId
AddSplit(pw, creditorId, split) ==
    LET debtorId == split.user IN
    IF /\ debtorId # creditorId
       /\ debtorId \in DOMAIN pw
       /\ creditorId \in DOMAIN pw[debtorId]
    THEN [pw EXCEPT ![debtorId][creditorId] = Plus(@, Number(split.amount))]
    ELSE pw

RECURSIVE AddSplits(_, _, _, _)
AddSplits(pw, creditorId, splits, k) ==
    IF k > Len(splits) THEN pw
    ELSE AddSplits(AddSplit(pw, creditorId, splits[k]), creditorId, splits, k + 1)

RECURSIVE Accumulate(_, _, _)
Accumulate(pw, expenses, k) ==
    IF k > Len(expenses) THEN pw
    ELSE Accumulate(AddSplits(pw, expenses[k].paidBy, expenses[k].splits, 1),
                    expenses, k + 1)

\* the gross (pre-netting) matrix
GrossMatrix(expenses, members) == Accumulate(InitMatrix(members), expenses, 1)

\* mutant: the else branch stores the difference with the wrong sign
NetPairWrongSign(pw, aId, bId) ==
    LET aOwesB == Entry(pw, aId, bId)
        bOwesA == Entry(pw, bId, aId)
    IN  IF Gt(aOwesB, bOwesA)
        THEN SetEntry(SetEntry(pw, aId, bId, Minus(aOwesB, bOwesA)), bId, aId, Zero)
        ELSE SetEntry(SetEntry(pw, bId, aId, Minus(aOwesB, bOwesA)), aId, bId, Zero)

\* mutant: the smaller side is not reset to zero
NetPairNoReset(pw, aId, bId) ==
    LET aOwesB == Entry(pw, aId, bId)
        bOwesA == Entry(pw, bId, aId)
    IN  IF Gt(aOwesB, bOwesA)
        THEN SetEntry(pw, aId, bId, Minus(aOwesB, bOwesA))
        ELSE SetEntry(pw, bId, aId, Minus(bOwesA, aOwesB))

\* net out the opposing balances of one pair
NetPair(pw, aId, bId) ==
    LET aOwesB == Entry(pw, aId, bId)
        bOwesA == Entry(pw, bId, aId)
    IN  IF Gt(aOwesB, bOwesA)
        THEN SetEntry(SetEntry(pw, aId, bId, Minus(aOwesB, bOwesA)), bId, aId, Zero)
        ELSE SetEntry(SetEntry(pw, bId, aId, Minus(bOwesA, aOwesB)), aId, bId, Zero)

\* members.forEach((a, i) => members.slice(i + 1).forEach(b => ...))
RECURSIVE NetFrom(_, _, _, _)
NetFrom(pw, members, i, j) ==
    IF i > Len(members) THEN pw
    ELSE IF j > Len(members) THEN NetFrom(pw, members, i + 1, i + 2)
    ELSE NetFrom(NetPair(pw, members[i], members[j]), members, i, j + 1)

NetPass(pw, members) == NetFrom(pw, members, 1, 2)

computeBalances(expenses, members) ==
    NetPass(GrossMatrix(expenses, members), members)

----------------------------------------------------------------------------
(* buildMemberSummary *)

\* the entries of row memberId above the threshold, in key order (the keys
\* of a row are member ids, each once, in the order of the member list)
RECURSIVE OwesFrom(_, _, _, _)
OwesFrom(memberId, pw, allMembers, k) ==
    IF k > Len(allMembers) THEN <<>>
    ELSE LET otherId == allMembers[k]
             rest == OwesFrom(memberId, pw, allMembers, k + 1)
         IN  IF /\ memberId \in DOMAIN pw
                /\ otherId \in DOMAIN pw[memberId]
                /\ \A j \in 1..(k - 1) : allMembers[j] # otherId
                /\ Gt(pw[memberId][otherId], Threshold)
             THEN <<[member |-> otherId, amount |-> pw[memberId][otherId]]>> \o rest
             ELSE rest

\* mutant: the incoming side uses >= instead of > against a larger threshold
RECURSIVE OwedByFromLoose(_, _, _, _)
OwedByFromLoose(memberId, pw, allMembers, k) ==
    IF k > Len(allMembers) THEN <<>>
    ELSE LET otherId == allMembers[k]
             rest == OwedByFromLoose(memberId, pw, allMembers, k + 1)
             theyOweMe == Entry(pw, otherId, memberId)
         IN  IF /\ otherId # memberId
                /\ Gt(theyOweMe, Number(SummaryThreshold + 1))
             THEN <<[member |-> otherId, amount |-> theyOweMe]>> \o rest
             ELSE rest

RECURSIVE OwedByFrom(_, _, _, _)
OwedByFrom(memberId, pw, allMembers, k) ==
    IF k > Len(allMembers) THEN <<>>
    ELSE LET otherId == allMembers[k]
             rest == OwedByFrom(memberId, pw, allMembers, k + 1)
             theyOweMe == Entry(pw, otherId, memberId)
         IN  IF otherId # memberId /\ Gt(theyOweMe, Threshold)
             THEN <<[member |-> otherId, amount |-> theyOweMe]>> \o rest
             ELSE rest

buildMemberSummary(memberId, pw, allMembers) ==
    [owes   |-> OwesFrom(memberId, pw, allMembers, 1),
     owedBy |-> OwedByFrom(memberId, pw, allMembers, 1)]

\* rows.reduce((s, r) => s + r.amount, 0)
SumAmounts(rows) ==
    LET s[n \in 0..Len(rows)] ==
            IF n = 0 THEN Zero ELSE Plus(s[n - 1], rows[n].amount)
    IN  s[Len(rows)]

----------------------------------------------------------------------------
(* The balance engine as a state machine: one call on drawn inputs *)

\* the two expenses of the specification's netting scenario, A = u1, B = u2,
\* C = u3, amounts 30.00, 10.00, 10.00 and 20.00, 20.00
Scenario ==
    <<[paidBy |-> "u1", amount |-> 30000,
       splits |-> <<[user |-> "u2", amount |-> 10000],
                    [user |-> "u3", amount |-> 10000]>>],
      [paidBy |-> "u2", amount |-> 20000,
       splits |-> <<[user |-> "u1", amount |-> 20000]>>]>>

\* the settle-up job before the scheduler fires
IdleJob ==
    [pc |-> "idle", zone |-> 0, now |-> 0, startOfDay |-> 0, endOfDay |-> 0,
     groups |-> <<>>, gi |-> 0, mi |-> 0, pairwise |-> NoMatrix,
     sends |-> <<>>, readFailed |-> FALSE]

InitBal ==
    /\ \/ /\ bMembers \in MemberLists
          /\ bExpenses \in SeqsUpTo(BalExpenseRecs, MaxBalExpenses)
       \/ /\ bMembers \in {m \in MemberLists : Len(m) = Cardinality(Users)}
          /\ bExpenses = Scenario
    /\ bActive \in 1..Len(bMembers)
    /\ bPhase = "input"
    /\ pairwise = NoMatrix
    /\ renetted = NoMatrix
    /\ summaries = <<>>
    /\ mailBodies = <<>>
    /\ job = IdleJob

\* group.members, the list the scheduler's member loop goes over; the rest of
\* allMembers is group.pastMembers
GroupMembers == SubSeq(bMembers, 1, bActive)

CallComputeBalances ==
    /\ bPhase = "input"
    /\ pairwise' = computeBalances(bExpenses, bMembers)
    /\ bPhase' = "computed"
    /\ UNCHANGED <<bMembers, bActive, bExpenses, renetted, summaries, mailBodies, job>>
    /\ UNCHANGED <<migVars, apiVars>>

CallBuildMemberSummary ==
    /\ bPhase = "computed"
    /\ summaries' = [m \in Range(GroupMembers) |->
                        buildMemberSummary(m, pairwise, bMembers)]
    /\ renetted' = NetPass(pairwise, bMembers)
    /\ bPhase' = "summarised"
    /\ UNCHANGED <<bMembers, bActive, bExpenses, pairwise, mailBodies, job>>
    /\ UNCHANGED <<migVars, apiVars>>

\* the balance part of the mail: the settled line, or the two lists with the
\* amounts as toFixed(2) prints them (in cents) and the net line with the
\* printed net
buildEmailBody(summary) ==
    LET totalOwe == SumAmounts(summary.owes)
        totalOwed == SumAmounts(summary.owedBy)
        net == Minus(totalOwed, totalOwe)
        settled == Len(summary.owes) = 0 /\ Len(summary.owedBy) = 0
        printed(rows) == [k \in DOMAIN rows |->
                             [member |-> rows[k].member,
                              amount |-> ToFixed2(rows[k].amount)]]
    IN  [settled |-> settled,
         owes |-> IF settled THEN <<>> ELSE printed(summary.owes),
         owedBy |-> IF settled THEN <<>> ELSE printed(summary.owedBy),
         net |-> net,
         netLine |-> IF settled THEN "none"
                     ELSE IF Gt(net, Zero) THEN "You are owed"
                     ELSE IF Gt(Zero, net) THEN "You owe"
                     ELSE "none",
         netPrinted |-> ToFixed2(MathAbs(net))]

\* the scheduler's loop over the members of the group
CallBuildEmailBody ==
    /\ bPhase = "summarised"
    /\ mailBodies' = [m \in Range(GroupMembers) |-> buildEmailBody(summaries[m])]
    /\ bPhase' = "mailed"
    /\ UNCHANGED <<bMembers, bActive, bExpenses, pairwise, renetted, summaries, job>>
    /\ UNCHANGED <<migVars, apiVars>>

NextBal == CallComputeBalances \/ CallBuildMemberSummary \/ CallBuildEmailBody


----------------------------------------------------------------------------
(* Ledger store documents *)

MigUsers == {"u1", "u2"}

\* no user: a reference that is not set
NoUser == ""

NoToken == "(unset)"

\* User schema defaults: splitwiseMigrationStatus 'none', no splitwiseToken
NewUser == [splitwiseToken |-> NoToken, splitwiseMigrationStatus |-> "none"]

\* mutant: the group is looked up by its creator instead of by membership
FindGroupByCreator(db, name, userId) ==
    LET hits == {g \in DOMAIN db : db[g].name = name /\ db[g].createdBy = userId}
    IN  IF hits = {} THEN 0 ELSE CHOOSE g \in hits : \A h \in hits : g <= h

\* Group.findOne({ name, members: userId }): the first matching document, 0 if none
FindGroup(db, name, userId) ==
    LET hits == {g \in DOMAIN db :
                    db[g].name = name /\ userId \in Range(db[g].members)}
    IN  IF hits = {} THEN 0 ELSE CHOOSE g \in hits : \A h \in hits : g <= h

\* mutant: the duplicate check does not look at who added the expense
ExpenseExistsAnyAdder(db, description, amount, group, addedBy) ==
    \E x \in DOMAIN db :
        /\ db[x].description = description
        /\ db[x].amount = amount
        /\ db[x].group = group

\* Expense.findOne({ description, amount, group, addedBy }) found a document
ExpenseExists(db, description, amount, group, addedBy) ==
    \E x \in DOMAIN db :
        /\ db[x].description = description
        /\ db[x].amount = amount
        /\ db[x].group = group
        /\ db[x].addedBy = addedBy

----------------------------------------------------------------------------
(* Foreign ledger records and their conversions *)

NoDate == "(no date)"

\* settleUpDate: null
NoSettleDate == <<>>

\* a JavaScript number: NaN, or a value in thousandths
Num(n) == [nan |-> FALSE, val |-> n]
NaN == [nan |-> TRUE, val |-> 0]

\* parseFloat(swExp.cost)
ParseFloat(cost) ==
    CASE cost = "10.00"  -> Num(10000)
      [] cost = "-10.00" -> Num(0 - 10000)
      [] cost = "25.5"   -> Num(25500)
      [] cost = "0.00"   -> Num(0)
      [] OTHER           -> NaN

\* mutant: the sign of the cost is kept
AbsSigned(n) == n

\* Math.abs(cost)
Abs(n) == IF n < 0 THEN 0 - n ELSE n

\* A Date is its instant: milliseconds, counted from 2024-01-01T00:00:00.000Z
\* (instants of December 2023 are negative); the clock is in the same unit.
Hour == 60 * 60 * 1000
Day == 24 * Hour

\* new Date(string) of an ISO string
ParseDate(date) ==
    CASE date = "2024-01-05T00:00:00Z"     -> 4 * Day
      [] date = "2024-01-05T23:59:59.500Z" -> 5 * Day - 500
      [] date = "2024-01-06T00:00:00Z"     -> 5 * Day

\* new Date(), Date.now()
Today == clock

\* swGroup.name === 'Non-group' ? 'Splitwise: Individuals' : swGroup.name
TargetName(swGroup) ==
    IF swGroup.name = "Non-group" THEN "Splitwise: Individuals" ELSE swGroup.name

\* swExp.description || 'Splitwise Migrated'
DescriptionOf(swExp) ==
    IF swExp.description = "" THEN "Splitwise Migrated" ELSE swExp.description

\* neither `if (swExp.deleted_at) continue` nor `if (isNaN(cost) || cost === 0) continue`
Importable(swExp) ==
    /\ ~swExp.deleted_at
    /\ LET cost == ParseFloat(swExp.cost) IN ~cost.nan /\ cost.val # 0

\* apiToken.trim()
Trim(token) ==
    CASE token = " tok-good " -> "tok-good"
      [] token = "  "         -> ""
      [] OTHER                -> token

ApiTokens == {"", "  ", " tok-good ", "tok-bad"}

OAuthCodes == {"code-fresh", "code-expired"}

\* what the foreign token endpoint issues for an authorization code
IssuedToken(code) == IF code = "code-fresh" THEN "tok-good" ELSE NoToken

\* the tokens get_current_user accepts
ValidTokens == {"tok-good"}

\* foreign users: the identity the token belongs to, a member with an email
\* and a member without
SwMe == [id |-> 1, email |-> "ann@x.io"]
SwBob == [id |-> 8, email |-> "bob@x.io"]
SwNoEmail == [id |-> 7, email |-> ""]

SwGroupPool ==
    {[id |-> 0, name |-> "Non-group", members |-> <<SwMe>>],
     [id |-> 1, name |-> "Trip", members |-> <<SwMe, SwBob, SwNoEmail>>],
     [id |-> 2, name |-> "Splitwise: Individuals", members |-> <<SwMe>>]}

\* the users of a foreign expense: shared with a member that has an email, or
\* owed by the member without email alone
SharedUsers ==
    <<[user_id |-> 1, paid_share |-> "10.00", owed_share |-> "5.00"],
      [user_id |-> 8, paid_share |-> "0.00", owed_share |-> "5.00"]>>

\* the same shares, the member with an email having paid
PaidByBobUsers ==
    <<[user_id |-> 1, paid_share |-> "0.00", owed_share |-> "5.00"],
      [user_id |-> 8, paid_share |-> "10.00", owed_share |-> "5.00"]>>

NoEmailUsers == <<[user_id |-> 7, paid_share |-> "25.5", owed_share |-> "25.5"]>>

SwExpensePool ==
    {[description |-> "Lunch", cost |-> "10.00", date |-> "2024-01-05T00:00:00Z",
      deleted_at |-> FALSE, users |-> SharedUsers],
     [description |-> "Lunch", cost |-> "-10.00", date |-> "2024-01-06T00:00:00Z",
      deleted_at |-> FALSE, users |-> PaidByBobUsers],
     [description |-> "", cost |-> "25.5", date |-> NoDate, deleted_at |-> FALSE,
      users |-> NoEmailUsers],
     [description |-> "Taxi", cost |-> "10.00", date |-> "2024-01-05T00:00:00Z",
      deleted_at |-> TRUE, users |-> SharedUsers],
     [description |-> "Taxi", cost |-> "0.00", date |-> NoDate, deleted_at |-> FALSE,
      users |-> SharedUsers],
     [description |-> "Taxi", cost |-> "n/a", date |-> NoDate, deleted_at |-> FALSE,
      users |-> NoEmailUsers]}

\* foreign groups have distinct ids
SwGroupLists ==
    {gs \in SeqsUpTo(SwGroupPool, MaxSwGroups) :
        \A i, j \in DOMAIN gs : i # j => gs[i].id # gs[j].id}

RECURSIVE SumLen(_, _)
SumLen(f, n) == IF n = 0 THEN 0 ELSE Len(f[n]) + SumLen(f, n - 1)

SwExpenseMaps(n) ==
    {f \in [1..n -> SeqsUpTo(SwExpensePool, MaxSwExpenses)] :
        SumLen(f, n) <= MaxSwExpenses}

----------------------------------------------------------------------------
(* Migration requests: POST /migrate, POST /migrate-with-token, runMigration *)

Reqs == 1..MaxRuns

NoResponse == [code |-> 0]

\* no lookup under way
NoQuery == [none |-> TRUE]

IdleRun ==
    [pc |-> "idle", userId |-> "", accessToken |-> NoToken, gi |-> 0,
     group |-> 0, ei |-> 0, query |-> NoQuery, processedGroups |-> 0,
     totalExpenses |-> 0, skipped |-> {}, res |-> NoResponse]

\* the request has answered: its locals are gone
Answered(run, response) ==
    [IdleRun EXCEPT !.pc = "done", !.userId = run.userId, !.res = response]

OAuthFailed == [code |-> 400, msg |-> "OAuth failed"]
TokenRequired == [code |-> 400, msg |-> "Splitwise API token is required."]
InvalidToken == [code |-> 401, msg |-> "Invalid Splitwise token"]
\* catch (err): 500 with 'Migration failed: ' + err.message, the message being that
\* of the foreign API ("upstream") or of the ledger store ("store")
MigrationFailed(err) == [code |-> 500, msg |-> "Migration failed", error |-> err]
\* mutant: the summary counts every foreign group, skipped ones included
MigrationSuccessfulAllGroups(run) ==
    [code |-> 200, msg |-> "Migration successful",
     groupsCount |-> Len(swGroups), expensesCount |-> run.totalExpenses]

MigrationSuccessful(run) ==
    [code |-> 200, msg |-> "Migration successful",
     groupsCount |-> run.processedGroups, expensesCount |-> run.totalExpenses]

\* get_expenses?...&limit=500 for the group at position gi: the first 500 of
\* the group's list, of which the soft-deleted ones ahead are passed over by
\* `if (swExp.deleted_at) continue`
GetExpenses(gi) ==
    LET room == IF swDeleted[gi] >= ExpenseLimit THEN 0
                ELSE ExpenseLimit - swDeleted[gi]
    IN  SubSeq(swExpenses[gi], 1,
               IF Len(swExpenses[gi]) <= room THEN Len(swExpenses[gi]) ELSE room)

\* the first expense at or after position k that the loop does not `continue` over
RECURSIVE NextImportable(_, _)
NextImportable(swExps, k) ==
    IF k > Len(swExps) THEN k
    ELSE IF Importable(swExps[k]) THEN k
    ELSE NextImportable(swExps, k + 1)

\* the filter of the duplicate lookup for a foreign expense: the paths that
\* Expense.findOne({ description, amount, group, addedBy }) names and the
\* values it asks for
DuplicateFilter(run, swExp) ==
    [description |-> DescriptionOf(swExp),
     amount |-> Abs(ParseFloat(swExp.cost).val),
     group |-> run.group,
     addedBy |-> run.userId]

\* the expense loop moves on from position k - 1 of the current group's
\* expenses: to the duplicate lookup for the next expense it does not pass
\* over, which it sends to the store, or out of the group
ContinueExpenses(run, k) ==
    LET swExps == GetExpenses(run.gi)
        n == NextImportable(swExps, k)
    IN  IF n <= Len(swExps)
        THEN [run EXCEPT !.ei = n, !.pc = "findExpense",
                         !.query = DuplicateFilter(run, swExps[n])]
        ELSE \* end of the group: processedGroups++ and on to the next group
             [run EXCEPT !.ei = 0, !.group = 0, !.query = NoQuery, !.gi = @ + 1,
                         !.processedGroups = @ + 1,
                         !.pc = IF run.gi + 1 > Len(swGroups)
                                THEN "markCompleted" ELSE "findGroup"]

\* mutant: a failed get_expenses is not caught per group and ends the run
SkipGroupAborts(run) == Answered(run, MigrationFailed("upstream"))

\* mutant: a group whose get_expenses failed is tried again
SkipGroupRetry(run) == [run EXCEPT !.group = 0, !.pc = "findGroup"]

\* catch (expErr) { ...; continue; }: the group is skipped, not counted
SkipGroup(run) ==
    [run EXCEPT !.skipped = @ \cup {run.gi}, !.group = 0, !.gi = @ + 1,
                !.pc = IF run.gi + 1 > Len(swGroups)
                       THEN "markCompleted" ELSE "findGroup"]

\* mutant: an expense none of whose users has an email gets no split
ImportedExpenseSharesOnly(r, run, swExp) ==
    LET cost == ParseFloat(swExp.cost).val
        withEmail == {m.id : m \in {n \in Range(swGroups[run.gi].members) :
                                       n.email # ""}}
        mapped == SelectSeq(swExp.users, LAMBDA p : p.user_id \in withEmail)
    IN  [description |-> DescriptionOf(swExp),
         amount |-> Abs(cost),
         date |-> IF swExp.date # NoDate THEN ParseDate(swExp.date) ELSE Today,
         paidBy |-> run.userId,
         group |-> run.group,
         addedBy |-> NoUser,
         splits |-> IF mapped = <<>> THEN <<>>
                    ELSE <<[user |-> run.userId, amount |-> Abs(cost)]>>]

\* the Expense document the pipeline builds for a foreign expense, as the
\* schema keeps it: addedBy is not a path of ExpenseSchema and is not stored
ImportedExpense(r, run, swExp) ==
    LET cost == ParseFloat(swExp.cost).val IN
    [description |-> DescriptionOf(swExp),
     amount |-> Abs(cost),
     date |-> IF swExp.date # NoDate THEN ParseDate(swExp.date) ELSE Today,
     paidBy |-> run.userId,
     group |-> run.group,
     addedBy |-> NoUser,
     splits |-> <<[user |-> run.userId, amount |-> Abs(cost)]>>]

\* the Group document the pipeline creates
ImportedGroup(run, targetName) ==
    [name |-> targetName, members |-> <<run.userId>>, pastMembers |-> <<>>,
     settleUpDate |-> NoSettleDate,
     createdBy |-> run.userId, note |-> "Imported from Splitwise"]

\* mutant: the token is stored but the status is left as it was
PendingUpdateTokenOnly(user, accessToken) ==
    [user EXCEPT !.splitwiseToken = accessToken]

\* the update of step 2
PendingUpdate(user, accessToken) ==
    [user EXCEPT !.splitwiseToken = accessToken,
                 !.splitwiseMigrationStatus = "pending"]

\* the update of step 5
CompletedUpdate(user) == [user EXCEPT !.splitwiseMigrationStatus = "completed"]

\* requests are served one after the other
MayStart(r) ==
    /\ runs[r].pc = "idle"
    /\ \A q \in Reqs : q < r => runs[q].pc = "done"

\* POST /migrate: the code exchange, then runMigration
PostMigrate(r, userId, code) ==
    /\ MayStart(r)
    /\ \/ /\ IssuedToken(code) # NoToken
          /\ runs' = [runs EXCEPT ![r] =
                 [IdleRun EXCEPT !.pc = "verify", !.userId = userId,
                                 !.accessToken = IssuedToken(code)]]
       \/ \* the exchange is refused or the endpoint is unreachable
          runs' = [runs EXCEPT ![r] =
                 Answered([IdleRun EXCEPT !.userId = userId], OAuthFailed)]
    /\ UNCHANGED <<storeVars, swVars, balVars, apiVars>>

\* POST /migrate-with-token
PostMigrateWithToken(r, userId, apiToken) ==
    /\ MayStart(r)
    /\ IF Trim(apiToken) = ""
       THEN runs' = [runs EXCEPT ![r] =
                Answered([IdleRun EXCEPT !.userId = userId], TokenRequired)]
       ELSE runs' = [runs EXCEPT ![r] =
                [IdleRun EXCEPT !.pc = "verify", !.userId = userId,
                                !.accessToken = Trim(apiToken)]]
    /\ UNCHANGED <<storeVars, swVars, balVars, apiVars>>

\* runMigration(userId, accessToken, res) is entered while other requests are
\* being served
StartMigration(r, userId, accessToken) ==
    /\ runs[r].pc = "idle"
    /\ runs' = [runs EXCEPT ![r] =
           [IdleRun EXCEPT !.pc = "verify", !.userId = userId,
                           !.accessToken = accessToken]]
    /\ UNCHANGED <<storeVars, swVars, balVars, apiVars>>

\* mutant: the status is marked 'pending' before the token is verified
VerifyTokenAfterMarking(r) ==
    /\ runs[r].pc = "verify"
    /\ userDb' = [userDb EXCEPT ![runs[r].userId] =
                      PendingUpdate(@, runs[r].accessToken)]
    /\ \/ /\ runs[r].accessToken \in ValidTokens
          /\ runs' = [runs EXCEPT ![r].pc = "markPending"]
       \/ runs' = [runs EXCEPT ![r] = Answered(runs[r], InvalidToken)]
    /\ UNCHANGED <<groupDb, expenseDb, swVars, balVars, apiVars>>

\* 1. verify the token by fetching the current user
VerifyToken(r) ==
    /\ runs[r].pc = "verify"
    /\ \/ /\ runs[r].accessToken \in ValidTokens
          /\ runs' = [runs EXCEPT ![r].pc = "markPending"]
       \/ \* the token is rejected or the call fails
          runs' = [runs EXCEPT ![r] = Answered(runs[r], InvalidToken)]
    /\ UNCHANGED <<storeVars, swVars, balVars, apiVars>>

\* 2. mark the migration as in progress
MarkPending(r) ==
    /\ runs[r].pc = "markPending"
    /\ \/ /\ userDb' = [userDb EXCEPT ![runs[r].userId] =
                            PendingUpdate(@, runs[r].accessToken)]
          /\ runs' = [runs EXCEPT ![r].pc = "fetchGroups"]
       \/ \* the store call throws
          /\ runs' = [runs EXCEPT ![r] = Answered(runs[r], MigrationFailed("store"))]
          /\ UNCHANGED userDb
    /\ UNCHANGED <<groupDb, expenseDb, swVars, balVars, apiVars>>

\* mutant: a failed get_groups is taken for an empty list of groups
FetchGroupsFailureAsEmpty(r) ==
    /\ runs[r].pc = "fetchGroups"
    /\ \/ runs' = [runs EXCEPT ![r].gi = 1,
                               ![r].pc = IF Len(swGroups) = 0
                                         THEN "markCompleted" ELSE "findGroup"]
       \/ runs' = [runs EXCEPT ![r] = Answered(runs[r], MigrationSuccessful(runs[r]))]
    /\ UNCHANGED <<storeVars, swVars, balVars, apiVars>>

\* 3. fetch all groups
FetchGroups(r) ==
    /\ runs[r].pc = "fetchGroups"
    /\ \/ runs' = [runs EXCEPT ![r].gi = 1,
                               ![r].pc = IF Len(swGroups) = 0
                                         THEN "markCompleted" ELSE "findGroup"]
       \/ \* get_groups fails
          runs' = [runs EXCEPT ![r] = Answered(runs[r], MigrationFailed("upstream"))]
    /\ UNCHANGED <<storeVars, swVars, balVars, apiVars>>

\* 4. Group.findOne({ name: targetName, members: userId })
FindLocalGroup(r) ==
    /\ runs[r].pc = "findGroup"
    /\ \/ LET g == FindGroup(groupDb, TargetName(swGroups[runs[r].gi]), runs[r].userId)
          IN  runs' = [runs EXCEPT ![r].group = g,
                                   ![r].pc = IF g = 0 THEN "createGroup"
                                             ELSE "fetchExpenses"]
       \/ \* the store call throws
          runs' = [runs EXCEPT ![r] = Answered(runs[r], MigrationFailed("store"))]
    /\ UNCHANGED <<storeVars, swVars, balVars, apiVars>>

\* mutant: saving the new group drops the past members of the stored groups
CreateLocalGroupDroppingPast(r) ==
    /\ runs[r].pc = "createGroup"
    /\ groupDb' = Append([g \in DOMAIN groupDb |->
                             [groupDb[g] EXCEPT !.pastMembers = <<>>]],
                         ImportedGroup(runs[r], TargetName(swGroups[runs[r].gi])))
    /\ runs' = [runs EXCEPT ![r].group = Len(groupDb) + 1,
                            ![r].pc = "fetchExpenses"]
    /\ UNCHANGED <<userDb, expenseDb, swVars, balVars, apiVars>>

\* if (!group) { group = new Group({...}); await group.save(); }
CreateLocalGroup(r) ==
    /\ runs[r].pc = "createGroup"
    /\ \/ /\ groupDb' = Append(groupDb,
                 ImportedGroup(runs[r], TargetName(swGroups[runs[r].gi])))
          /\ runs' = [runs EXCEPT ![r].group = Len(groupDb) + 1,
                                  ![r].pc = "fetchExpenses"]
       \/ \* the save throws
          /\ runs' = [runs EXCEPT ![r] = Answered(runs[r], MigrationFailed("store"))]
          /\ UNCHANGED groupDb
    /\ UNCHANGED <<userDb, expenseDb, swVars, balVars, apiVars>>

\* fetch the expenses of the group (one request, limit=500)
FetchExpenses(r) ==
    /\ runs[r].pc = "fetchExpenses"
    /\ \/ runs' = [runs EXCEPT ![r] = ContinueExpenses(runs[r], 1)]
       \/ \* get_expenses fails: the group is skipped
          runs' = [runs EXCEPT ![r] = SkipGroup(runs[r])]
    /\ UNCHANGED <<storeVars, swVars, balVars, apiVars>>

\* skip duplicates: the store answers the lookup that is under way
FindExistingExpense(r) ==
    /\ runs[r].pc = "findExpense"
    /\ \/ LET run == runs[r]
              filter == run.query
          IN  IF ExpenseExists(expenseDb, filter.description, filter.amount,
                               filter.group, filter.addedBy)
              THEN runs' = [runs EXCEPT ![r] = ContinueExpenses(run, run.ei + 1)]
              ELSE runs' = [runs EXCEPT ![r].pc = "saveExpense",
                                        ![r].query = NoQuery]
       \/ \* the store call throws
          runs' = [runs EXCEPT ![r] = Answered(runs[r], MigrationFailed("store"))]
    /\ UNCHANGED <<storeVars, swVars, balVars, apiVars>>

\* await new Expense({...}).save(); groupExpenseCount++; totalExpenses++
SaveExpense(r) ==
    /\ runs[r].pc = "saveExpense"
    /\ \/ LET run == runs[r] IN
          /\ expenseDb' = Append(expenseDb,
                 ImportedExpense(r, run, swExpenses[run.gi][run.ei]))
          /\ runs' = [runs EXCEPT ![r] =
                 ContinueExpenses([run EXCEPT !.totalExpenses = @ + 1], run.ei + 1)]
       \/ \* the save throws
          /\ runs' = [runs EXCEPT ![r] = Answered(runs[r], MigrationFailed("store"))]
          /\ UNCHANGED expenseDb
    /\ UNCHANGED <<userDb, groupDb, swVars, balVars, apiVars>>

\* 5. mark done and answer with the summary
MarkCompleted(r) ==
    /\ runs[r].pc = "markCompleted"
    /\ \/ /\ userDb' = [userDb EXCEPT ![runs[r].userId] = CompletedUpdate(@)]
          /\ runs' = [runs EXCEPT ![r] =
                 Answered(runs[r], MigrationSuccessful(runs[r]))]
       \/ \* the store call throws
          /\ runs' = [runs EXCEPT ![r] = Answered(runs[r], MigrationFailed("store"))]
          /\ UNCHANGED userDb
    /\ UNCHANGED <<groupDb, expenseDb, swVars, balVars, apiVars>>

----------------------------------------------------------------------------
(* Accounts and the requests of the groups, expenses and auth routes *)

Calls == 1..MaxCalls

\* the slots of the requests that carry no token: register, login,
\* forgotpassword, resetpassword
Visitors == (MaxCalls + 1)..(MaxCalls + MaxVisitors)

Slots == Calls \cup Visitors

NoDoc == [none |-> TRUE]

IdleCall ==
    [pc |-> "idle", userId |-> NoUser, gid |-> 0, arg |-> "", body |-> NoDoc,
     snap |-> NoDoc, res |-> NoResponse]

\* the request has answered: its locals are gone
Replied(call, response) == [IdleCall EXCEPT !.pc = "done", !.res = response]

\* a slot takes a request of an authenticated user (middleware auth)
MayCall(c, userId) ==
    /\ calls[c].pc = "idle"
    /\ userId \in sessions

ServerError == [code |-> 500, msg |-> "Server Error"]
GroupNotFound == [code |-> 404, msg |-> "Group not found"]
NotActiveMember ==
    [code |-> 400, msg |-> "You are not an active member of this group"]
InvitationSent == [code |-> 200, msg |-> "Invitation email sent!"]
\* res.json({ msg, group }): the returned document is not kept in the model
GroupAnswer(message) == [code |-> 200, msg |-> message]

\* resetPasswordToken and resetPasswordExpire of a document that has none
NoResetToken == ""
NoExpire == 0 - 1

\* the identity fields of a User document
Account(email, username, password) ==
    [email |-> email, username |-> username, password |-> password,
     isGhostUser |-> FALSE, friends |-> <<>>,
     resetPasswordToken |-> NoResetToken, resetPasswordExpire |-> NoExpire]

\* User.findOne({ email }): an exact match of the stored string
FindUserByEmail(accs, email) ==
    LET hits == {id \in DOMAIN accs : accs[id].email = email}
    IN  IF hits = {} THEN NoUser ELSE CHOOSE id \in hits : TRUE

\* [...new Set(list)]: the first occurrence of each element
RECURSIVE Dedupe(_)
Dedupe(s) ==
    IF s = <<>> THEN <<>>
    ELSE LET rest == Dedupe(SubSeq(s, 1, Len(s) - 1))
             last == s[Len(s)]
         IN  IF last \in Range(rest) THEN rest ELSE Append(rest, last)

\* list.filter(id => id.toString() !== userId)
Without(list, userId) == SelectSeq(list, LAMBDA id : id # userId)

\* exp.splits.forEach: balance -= split.amount for every split of userId
RECURSIVE LessSplits(_, _, _)
LessSplits(balance, splits, userId) ==
    IF splits = <<>> THEN balance
    ELSE LessSplits(IF Head(splits).user = userId
                    THEN Minus(balance, Number(Head(splits).amount))
                    ELSE balance,
                    Tail(splits), userId)

\* one expense in the running balance of userId: balance += exp.amount for
\* what the user paid, then the splits
Booked(balance, exp, userId) ==
    LessSplits(IF exp.paidBy = userId THEN Plus(balance, Number(exp.amount))
               ELSE balance,
               exp.splits, userId)

\* userBalance of POST /:id/leave over Expense.find({ group })
UserBalance(db, gid, userId) ==
    LET userBalance[n \in 0..Len(db)] ==
            IF n = 0 THEN Zero
            ELSE IF db[n].group = gid THEN Booked(userBalance[n - 1], db[n], userId)
            ELSE userBalance[n - 1]
    IN  userBalance[Len(db)]

\* the Group document of POST /api/groups
NewGroup(name, members, userId) ==
    [name |-> name, members |-> Dedupe(Append(members, userId)),
     pastMembers |-> <<>>, settleUpDate |-> NoSettleDate, createdBy |-> userId,
     note |-> ""]

\* mutant: a re-joining user stays in pastMembers
RejoinedKeepingPast(group, userId) ==
    [group EXCEPT !.members = Append(@, userId)]

\* pastMembers without the user, members with the user pushed
Rejoined(group, userId) ==
    [group EXCEPT !.pastMembers = Without(@, userId),
                  !.members = Append(@, userId)]

\* members without the user; pastMembers with the user when the balance is
\* beyond the epsilon
Departed(group, userId, userBalance) ==
    [group EXCEPT !.members = Without(@, userId),
                  !.pastMembers =
                      IF Gt(MathAbs(userBalance), Epsilon)
                          /\ userId \notin Range(@)
                      THEN Append(@, userId) ELSE @]

\* group.save(): the document as this request holds it replaces the stored one
\* (last writer wins)
SaveGroup(db, gid, doc) == [db EXCEPT ![gid] = doc]

\* POST /api/groups
CreateGroup(c, userId, name, members) ==
    /\ MayCall(c, userId)
    /\ Len(groupDb) < MaxGroups
    /\ \/ LET doc == NewGroup(name, members, userId) IN
          /\ groupDb' = Append(groupDb, doc)
          /\ calls' = [calls EXCEPT ![c] =
                 Replied([IdleCall EXCEPT !.userId = userId,
                                          !.gid = Len(groupDb) + 1],
                         GroupAnswer("created"))]
       \/ \* the save throws
          /\ calls' = [calls EXCEPT ![c] =
                 Replied([IdleCall EXCEPT !.userId = userId], ServerError)]
          /\ UNCHANGED groupDb
    /\ UNCHANGED <<userDb, expenseDb, swVars, runs, balVars, accounts, sessions, clock>>

\* Group.findById(req.params.id) at the head of a membership route
FindGroupById(c, userId, gid, arg, pc) ==
    /\ MayCall(c, userId)
    /\ \/ IF gid \in DOMAIN groupDb
          THEN calls' = [calls EXCEPT ![c] =
                   [IdleCall EXCEPT !.pc = pc, !.userId = userId, !.gid = gid,
                                    !.arg = arg, !.snap = groupDb[gid]]]
          ELSE calls' = [calls EXCEPT ![c] =
                   Replied([IdleCall EXCEPT !.userId = userId, !.gid = gid],
                           GroupNotFound)]
       \/ \* the store call throws
          calls' = [calls EXCEPT ![c] =
               Replied([IdleCall EXCEPT !.userId = userId, !.gid = gid],
                       ServerError)]
    /\ UNCHANGED <<storeVars, swVars, runs, balVars, accounts, sessions, clock>>

\* the tail of a membership route: the changed document is saved and returned
SaveAndAnswer(c, doc, message) ==
    \/ /\ groupDb' = SaveGroup(groupDb, calls[c].gid, doc)
       /\ calls' = [calls EXCEPT ![c] = Replied(calls[c], GroupAnswer(message))]
    \/ \* the save throws
       /\ calls' = [calls EXCEPT ![c] = Replied(calls[c], ServerError)]
       /\ UNCHANGED groupDb

\* POST /api/groups/:id/members: Group.findById
AddMemberFind(c, userId, gid, email) ==
    FindGroupById(c, userId, gid, email, "addMember")

\* POST /api/groups/:id/members: User.findOne({ email }); a user who is a
\* member already is answered at once
AddMemberLookup(c) ==
    /\ calls[c].pc = "addMember"
    /\ \/ LET user == FindUserByEmail(accounts, calls[c].arg)
              group == calls[c].snap
          IN  IF user = NoUser
              THEN calls' = [calls EXCEPT ![c].pc = "invite"]
              ELSE IF user \notin Range(group.members)
              THEN calls' = [calls EXCEPT ![c].pc = "addSave",
                                          ![c].snap = Rejoined(group, user)]
              ELSE calls' = [calls EXCEPT ![c] =
                       Replied(calls[c], GroupAnswer("added"))]
       \/ \* the store call throws
          calls' = [calls EXCEPT ![c] = Replied(calls[c], ServerError)]
    /\ UNCHANGED <<storeVars, swVars, runs, balVars, accounts, sessions, clock>>

\* POST /api/groups/:id/members: sendEmail of the invitation, which may throw
AddMemberInvite(c) ==
    /\ calls[c].pc = "invite"
    /\ \E response \in {InvitationSent, ServerError} :
           calls' = [calls EXCEPT ![c] = Replied(calls[c], response)]
    /\ UNCHANGED <<storeVars, swVars, runs, balVars, accounts, sessions, clock>>

\* POST /api/groups/:id/members: group.save()
AddMemberSave(c) ==
    /\ calls[c].pc = "addSave"
    /\ SaveAndAnswer(c, calls[c].snap, "added")
    /\ UNCHANGED <<userDb, expenseDb, swVars, runs, balVars, accounts, sessions, clock>>

\* POST /api/groups/:id/join
JoinFind(c, userId, gid) == FindGroupById(c, userId, gid, "", "join")

JoinSave(c) ==
    /\ calls[c].pc = "join"
    /\ LET group == calls[c].snap
           userId == calls[c].userId
       IN  IF userId \notin Range(group.members)
           THEN SaveAndAnswer(c, Rejoined(group, userId), "joined")
           ELSE /\ calls' = [calls EXCEPT ![c] =
                        Replied(calls[c], GroupAnswer("joined"))]
                /\ UNCHANGED groupDb
    /\ UNCHANGED <<userDb, expenseDb, swVars, runs, balVars, accounts, sessions, clock>>

\* an answered request of a group route that keeps who asked, about which group
ServedGroup(userId, gid, response) ==
    [IdleCall EXCEPT !.pc = "done", !.userId = userId, !.gid = gid,
                     !.res = response]

\* Group.findById at the head of a route that checks the requester before its
\* next call: `refused` is the answer to a requester the check turns away,
\* `doc` the document the request goes on with
FindAndCheck(c, userId, gid, allowed, refused, pc, doc) ==
    /\ MayCall(c, userId)
    /\ \/ IF gid \notin DOMAIN groupDb
          THEN calls' = [calls EXCEPT ![c] =
                   ServedGroup(userId, gid, GroupNotFound)]
          ELSE IF ~allowed
          THEN calls' = [calls EXCEPT ![c] = ServedGroup(userId, gid, refused)]
          ELSE calls' = [calls EXCEPT ![c] =
                   [IdleCall EXCEPT !.pc = pc, !.userId = userId, !.gid = gid,
                                    !.snap = doc]]
       \/ \* the store call throws
          calls' = [calls EXCEPT ![c] = ServedGroup(userId, gid, ServerError)]
    /\ UNCHANGED <<storeVars, swVars, runs, balVars, accounts, sessions, clock>>

\* mutant: the leave route does not check who asks
LeaveFindUnchecked(c, userId, gid) ==
    FindAndCheck(c, userId, gid, TRUE, NotActiveMember, "leave", groupDb[gid])

\* POST /api/groups/:id/leave: Group.findById and the membership check
LeaveFind(c, userId, gid) ==
    FindAndCheck(c, userId, gid, userId \in Range(groupDb[gid].members),
                 NotActiveMember, "leave", groupDb[gid])

\* POST /api/groups/:id/leave: Expense.find({ group }), the balance and the
\* changes to the document the request holds
LeaveBalance(c) ==
    /\ calls[c].pc = "leave"
    /\ \/ calls' = [calls EXCEPT ![c].pc = "leaveSave",
                                 ![c].snap =
                        Departed(calls[c].snap, calls[c].userId,
                                 UserBalance(expenseDb, calls[c].gid,
                                             calls[c].userId))]
       \/ \* the store call throws
          calls' = [calls EXCEPT ![c] = Replied(calls[c], ServerError)]
    /\ UNCHANGED <<storeVars, swVars, runs, balVars, accounts, sessions, clock>>

\* POST /api/groups/:id/leave: group.save()
LeaveSave(c) ==
    /\ calls[c].pc = "leaveSave"
    /\ SaveAndAnswer(c, calls[c].snap, "left")
    /\ UNCHANGED <<userDb, expenseDb, swVars, runs, balVars, accounts, sessions, clock>>

Forbidden == [code |-> 403, msg |-> "Not authorized"]

\* PUT /api/groups/:id: Group.findById, a current member may rename
RenameFind(c, userId, gid, name) ==
    FindAndCheck(c, userId, gid, userId \in Range(groupDb[gid].members),
                 [code |-> 401, msg |-> "Not authorized"], "rename",
                 [groupDb[gid] EXCEPT !.name = name])

\* PUT /api/groups/:id: group.save()
RenameSave(c) ==
    /\ calls[c].pc = "rename"
    /\ SaveAndAnswer(c, calls[c].snap, "renamed")
    /\ UNCHANGED <<userDb, expenseDb, swVars, runs, balVars, accounts, sessions, clock>>

\* PUT /api/groups/:id/note: Group.findById, an active or past member may write
\* the note; group.note = req.body.note || ''
NoteFind(c, userId, gid, note) ==
    FindAndCheck(c, userId, gid,
                 userId \in Range(groupDb[gid].members)
                     \cup Range(groupDb[gid].pastMembers),
                 Forbidden, "note", [groupDb[gid] EXCEPT !.note = note])

\* PUT /api/groups/:id/note: group.save()
NoteSave(c) ==
    /\ calls[c].pc = "note"
    /\ SaveAndAnswer(c, calls[c].snap, "note")
    /\ UNCHANGED <<userDb, expenseDb, swVars, runs, balVars, accounts, sessions, clock>>

\* PUT /api/groups/:id/settle-date: Group.findById, an active or past member
\* may set the date; req.body.settleUpDate ? new Date(...) : null
SettleDateFind(c, userId, gid, settleUpDate) ==
    FindAndCheck(c, userId, gid,
                 userId \in Range(groupDb[gid].members)
                     \cup Range(groupDb[gid].pastMembers),
                 Forbidden, "settleDate",
                 [groupDb[gid] EXCEPT !.settleUpDate =
                     IF settleUpDate = "" THEN NoSettleDate
                     ELSE <<ParseDate(settleUpDate)>>])

\* PUT /api/groups/:id/settle-date: group.save()
SettleDateSave(c) ==
    /\ calls[c].pc = "settleDate"
    /\ SaveAndAnswer(c, calls[c].snap, "settleUpDate")
    /\ UNCHANGED <<userDb, expenseDb, swVars, runs, balVars, accounts, sessions, clock>>

----------------------------------------------------------------------------
(* The auth routes: registration, login, password reset, friends *)

\* ids in the order the store hands them out
UserIdOrder == <<"u1", "u2", "u3">>

NextUserId(accs) == UserIdOrder[Cardinality(DOMAIN accs) + 1]

\* bcrypt.hash(password, salt) and bcrypt.compare(password, hash)
Hash(password) == <<"bcrypt", password>>
Compare(password, hash) == hash = Hash(password)

\* the unique indexes of UserSchema (email, username) accept the document
UniqueIn(accs, id, doc) ==
    \A other \in DOMAIN accs \ {id} :
        accs[other].email # doc.email /\ accs[other].username # doc.username

\* user.splitwiseMigrationStatus = 'none' of the promotion
PromotedLinkage(user) == [user EXCEPT !.splitwiseMigrationStatus = "none"]

\* Date.now() + 10 * 60 * 1000: how long a reset token is good for
ResetTokenLife == 10 * 60 * 1000

\* the moments at which a request reads Date.now()
Instants == {0, ResetTokenLife}

\* crypto.randomBytes(20).toString('hex')
ResetTokens == {"tok1", "tok2"}

\* crypto.createHash('sha256').update(token).digest('hex')
Sha256(token) == "sha256(" \o token \o ")"

UserExists == [code |-> 400, msg |-> "User already exists"]
InvalidCredentials == [code |-> 400, msg |-> "Invalid Credentials"]
NoSuchEmail == [code |-> 404, msg |-> "There is no user with that email"]
EmailSent == [code |-> 200, msg |-> "Email sent"]
EmailNotSent == [code |-> 500, msg |-> "Email could not be sent"]
InvalidResetToken == [code |-> 400, msg |-> "Invalid or expired token"]
PasswordReset == [code |-> 200, msg |-> "Password reset successful"]
\* res.status(500).send('Server error') of register and login
AuthServerError == [code |-> 500, msg |-> "Server error"]

\* res.json({ token, user: { id, username, email } })
TokenAnswer(id, user) ==
    [code |-> 200, msg |-> "token",
     user |-> [id |-> id, username |-> user.username, email |-> user.email]]

\* a slot takes a request of a route without the auth middleware
Arrives(c) == calls[c].pc \in {"idle", "done"}

\* the document a query hands to the request: the identity fields and the
\* migration status of the stored User, and nothing of nobody
Found(id) ==
    IF id = NoUser THEN NoDoc
    ELSE [id |-> id, user |-> accounts[id],
          splitwiseMigrationStatus |-> userDb[id].splitwiseMigrationStatus,
          modified |-> {}]

\* a request reads the store and goes on with pc, or the store call throws
ReadThen(c, body, id, pc, failure) ==
    \/ calls' = [calls EXCEPT ![c] =
           [IdleCall EXCEPT !.pc = pc, !.userId = id, !.body = body,
                            !.snap = Found(id)]]
    \/ calls' = [calls EXCEPT ![c] = Replied(calls[c], failure)]

\* user.save() of a document that a query returned: the paths modified since
\* are set on the stored document
Saved(stored, local, paths) ==
    [path \in DOMAIN stored |->
        IF path \in paths THEN local[path] ELSE stored[path]]

\* mutant: a promoted ghost is rebuilt as a new document and loses its friends
PromotedAsNew(doc, username, password) ==
    [doc EXCEPT
        !.user = Account(doc.user.email, username, Hash(password)),
        !.splitwiseMigrationStatus = "none",
        !.modified = {"password", "isGhostUser", "username", "friends"}
                         \cup (IF doc.splitwiseMigrationStatus # "none"
                               THEN {"splitwiseMigrationStatus"} ELSE {})]

\* the assignments of the promotion on the document the request holds, and
\* the paths they modify: a path assigned the value it has is not modified,
\* a new hash is never the old one
Promoted(doc, username, password) ==
    [doc EXCEPT
        !.user = [@ EXCEPT !.password = Hash(password), !.username = username,
                           !.isGhostUser = FALSE],
        !.splitwiseMigrationStatus = "none",
        !.modified =
            {"password", "isGhostUser"}
                \cup (IF doc.user.username # username THEN {"username"} ELSE {})
                \cup (IF doc.splitwiseMigrationStatus # "none"
                      THEN {"splitwiseMigrationStatus"} ELSE {})]

\* POST /api/auth/register: User.findOne({ email }); user = new User(...) when
\* there is none
RegisterFind(c, username, email, password) ==
    /\ Arrives(c)
    /\ LET id == FindUserByEmail(accounts, email)
           body == [username |-> username, email |-> email, password |-> password]
       IN  \/ IF id = NoUser
              THEN calls' = [calls EXCEPT ![c] =
                       [IdleCall EXCEPT !.pc = "registerSalt", !.body = body,
                            !.snap = [id |-> NoUser,
                                      user |-> Account(email, username, password),
                                      splitwiseMigrationStatus |-> "none",
                                      modified |-> {}]]]
              ELSE IF accounts[id].isGhostUser
              THEN calls' = [calls EXCEPT ![c] =
                       [IdleCall EXCEPT !.pc = "registerSalt", !.userId = id,
                                        !.body = body, !.snap = Found(id)]]
              ELSE calls' = [calls EXCEPT ![c] = Replied(calls[c], UserExists)]
           \/ \* the store call throws
              calls' = [calls EXCEPT ![c] = Replied(calls[c], AuthServerError)]
    /\ UNCHANGED <<storeVars, swVars, runs, balVars, accounts, sessions, clock>>

\* POST /api/auth/register: bcrypt.genSalt(10)
RegisterSalt(c) ==
    /\ calls[c].pc = "registerSalt"
    /\ calls' = [calls EXCEPT ![c].pc = "registerHash"]
    /\ UNCHANGED <<storeVars, swVars, runs, balVars, accounts, sessions, clock>>

\* POST /api/auth/register: bcrypt.hash(password, salt) and the assignments
\* that follow it
RegisterHash(c) ==
    /\ calls[c].pc = "registerHash"
    /\ LET body == calls[c].body IN
       calls' = [calls EXCEPT
           ![c].pc = "registerSave",
           ![c].snap = IF calls[c].userId = NoUser
                       THEN [@ EXCEPT !.user.password = Hash(body.password)]
                       ELSE Promoted(@, body.username, body.password)]
    /\ UNCHANGED <<storeVars, swVars, runs, balVars, accounts, sessions, clock>>

\* POST /api/auth/register: user.save() and the token; the unique indexes
\* refuse a document whose email or username another user has
RegisterSave(c) ==
    /\ calls[c].pc = "registerSave"
    /\ LET id == calls[c].userId
           local == calls[c].snap
       IN  \/ /\ id # NoUser
              /\ LET doc == Saved(accounts[id], local.user, local.modified) IN
                 /\ UniqueIn(accounts, id, doc)
                 /\ accounts' = [accounts EXCEPT ![id] = doc]
                 /\ userDb' =
                        IF "splitwiseMigrationStatus" \in local.modified
                        THEN [userDb EXCEPT ![id] = PromotedLinkage(@)]
                        ELSE userDb
                 /\ sessions' = sessions \cup {id}
                 /\ calls' = [calls EXCEPT ![c] =
                        Replied(calls[c], TokenAnswer(id, local.user))]
           \/ /\ id = NoUser
              /\ DOMAIN accounts # Users
              /\ UniqueIn(accounts, NoUser, local.user)
              /\ LET new == NextUserId(accounts) IN
                 /\ accounts' = (new :> local.user) @@ accounts
                 /\ userDb' = (new :> NewUser) @@ userDb
                 /\ sessions' = sessions \cup {new}
                 /\ calls' = [calls EXCEPT ![c] =
                        Replied(calls[c], TokenAnswer(new, local.user))]
           \/ \* the save throws, a duplicate key among the reasons
              /\ calls' = [calls EXCEPT ![c] = Replied(calls[c], AuthServerError)]
              /\ UNCHANGED <<accounts, userDb, sessions>>
    /\ UNCHANGED <<groupDb, expenseDb, swVars, runs, balVars, clock>>

\* POST /api/auth/login: User.findOne({ email })
LoginFind(c, email, password) ==
    /\ Arrives(c)
    /\ LET id == FindUserByEmail(accounts, email) IN
       IF id = NoUser
       THEN \E response \in {InvalidCredentials, AuthServerError} :
                calls' = [calls EXCEPT ![c] = Replied(calls[c], response)]
       ELSE ReadThen(c, [email |-> email, password |-> password], id,
                     "loginCompare", AuthServerError)
    /\ UNCHANGED <<storeVars, swVars, runs, balVars, accounts, sessions, clock>>

\* POST /api/auth/login: bcrypt.compare(password, user.password) on the
\* document that was read, and the token
LoginCompare(c) ==
    /\ calls[c].pc = "loginCompare"
    /\ LET user == calls[c].snap.user IN
       IF Compare(calls[c].body.password, user.password)
       THEN /\ sessions' = sessions \cup {calls[c].userId}
            /\ calls' = [calls EXCEPT ![c] =
                   Replied(calls[c], TokenAnswer(calls[c].userId, user))]
       ELSE /\ calls' = [calls EXCEPT ![c] =
                   Replied(calls[c], InvalidCredentials)]
            /\ UNCHANGED sessions
    /\ UNCHANGED <<storeVars, swVars, runs, balVars, accounts, clock>>

\* the paths of the identity fields in which two documents differ
Differing(before, after) ==
    {path \in {"resetPasswordToken", "resetPasswordExpire"} :
        before[path] # after[path]}

\* POST /api/auth/forgotpassword: User.findOne({ email }), then the token (20
\* random bytes: one that no user holds), its hash and its expiry on the
\* document the request holds
ForgotFind(c, email, resetToken, now) ==
    /\ Arrives(c)
    /\ \A id \in DOMAIN accounts :
           accounts[id].resetPasswordToken # Sha256(resetToken)
    /\ now >= clock
    /\ clock' = now
    /\ LET id == FindUserByEmail(accounts, email) IN
       IF id = NoUser
       THEN \E response \in {NoSuchEmail, ServerError} :
                calls' = [calls EXCEPT ![c] = Replied(calls[c], response)]
       ELSE LET user == [accounts[id] EXCEPT
                            !.resetPasswordToken = Sha256(resetToken),
                            !.resetPasswordExpire = now + ResetTokenLife]
            IN  \/ calls' = [calls EXCEPT ![c] =
                       [IdleCall EXCEPT
                           !.pc = "forgotSave", !.userId = id,
                           !.body = [email |-> email, resetToken |-> resetToken],
                           !.snap = [Found(id) EXCEPT
                               !.user = user,
                               !.modified = Differing(accounts[id], user)]]]
                \/ \* the store call throws
                   calls' = [calls EXCEPT ![c] = Replied(calls[c], ServerError)]
    /\ UNCHANGED <<storeVars, swVars, runs, balVars, accounts, sessions>>

\* a save of the document the request holds, which may throw: the stored
\* document takes the modified paths and the request goes on
SaveThen(c, pc, response) ==
    LET id == calls[c].userId
        local == calls[c].snap
    IN  \/ /\ accounts' = [accounts EXCEPT ![id] =
                               Saved(@, local.user, local.modified)]
           /\ calls' = [calls EXCEPT ![c] =
                  IF pc = "done" THEN Replied(calls[c], response)
                  ELSE [calls[c] EXCEPT !.pc = pc, !.snap.modified = {}]]
        \/ \* the save throws
           /\ calls' = [calls EXCEPT ![c] = Replied(calls[c], ServerError)]
           /\ UNCHANGED accounts

\* POST /api/auth/forgotpassword: user.save() of the token and the expiry
ForgotSave(c) ==
    /\ calls[c].pc = "forgotSave"
    /\ SaveThen(c, "forgotMail", NoResponse)
    /\ UNCHANGED <<storeVars, swVars, runs, balVars, sessions, clock>>

\* POST /api/auth/forgotpassword: sendEmail of the reset link; when it throws
\* the token and the expiry are taken off the document the request holds
ForgotMail(c) ==
    /\ calls[c].pc = "forgotMail"
    /\ \/ calls' = [calls EXCEPT ![c] = Replied(calls[c], EmailSent)]
       \/ LET user == [calls[c].snap.user EXCEPT
                          !.resetPasswordToken = NoResetToken,
                          !.resetPasswordExpire = NoExpire]
          IN  calls' = [calls EXCEPT
                  ![c].pc = "forgotClear",
                  ![c].snap.user = user,
                  ![c].snap.modified = Differing(calls[c].snap.user, user)]
    /\ UNCHANGED <<storeVars, swVars, runs, balVars, accounts, sessions, clock>>

\* POST /api/auth/forgotpassword: user.save() after the mail failed
ForgotClear(c) ==
    /\ calls[c].pc = "forgotClear"
    /\ SaveThen(c, "done", EmailNotSent)
    /\ UNCHANGED <<storeVars, swVars, runs, balVars, sessions, clock>>

\* User.findOne({ resetPasswordToken, resetPasswordExpire: { $gt: now } }):
\* the first such user in the order of the store
FindUserByResetToken(accs, resetPasswordToken, now) ==
    LET hits == {k \in DOMAIN UserIdOrder :
                    /\ UserIdOrder[k] \in DOMAIN accs
                    /\ accs[UserIdOrder[k]].resetPasswordToken = resetPasswordToken
                    /\ accs[UserIdOrder[k]].resetPasswordExpire # NoExpire
                    /\ accs[UserIdOrder[k]].resetPasswordExpire > now}
    IN  IF hits = {} THEN NoUser
        ELSE UserIdOrder[CHOOSE k \in hits : \A l \in hits : k <= l]

\* PUT /api/auth/resetpassword/:resettoken: the request builds its query, the
\* hash of the token and { $gt: Date.now() }, and sends it to the store
ResetQuery(c, resettoken, password, now) ==
    /\ Arrives(c)
    /\ now >= clock
    /\ clock' = now
    /\ calls' = [calls EXCEPT ![c] =
           [IdleCall EXCEPT
               !.pc = "resetFind",
               !.body = [resettoken |-> resettoken, password |-> password,
                         resetPasswordToken |-> Sha256(resettoken),
                         now |-> now]]]
    /\ UNCHANGED <<storeVars, swVars, runs, balVars, accounts, sessions>>

\* PUT /api/auth/resetpassword/:resettoken: User.findOne answers the query
\* over the users stored when it is evaluated
ResetFind(c) ==
    /\ calls[c].pc = "resetFind"
    /\ LET body == calls[c].body
           id == FindUserByResetToken(accounts, body.resetPasswordToken, body.now)
       IN  IF id = NoUser
           THEN \E response \in {InvalidResetToken, ServerError} :
                    calls' = [calls EXCEPT ![c] = Replied(calls[c], response)]
           ELSE ReadThen(c, [resettoken |-> body.resettoken,
                             password |-> body.password], id,
                         "resetSalt", ServerError)
    /\ UNCHANGED <<storeVars, swVars, runs, balVars, accounts, sessions, clock>>

\* PUT /api/auth/resetpassword/:resettoken: bcrypt.genSalt(10)
ResetSalt(c) ==
    /\ calls[c].pc = "resetSalt"
    /\ calls' = [calls EXCEPT ![c].pc = "resetHash"]
    /\ UNCHANGED <<storeVars, swVars, runs, balVars, accounts, sessions, clock>>

\* PUT /api/auth/resetpassword/:resettoken: bcrypt.hash(password, salt), and
\* the token and the expiry taken off the document the request holds
ResetHash(c) ==
    /\ calls[c].pc = "resetHash"
    /\ LET user == [calls[c].snap.user EXCEPT
                       !.password = Hash(calls[c].body.password),
                       !.resetPasswordToken = NoResetToken,
                       !.resetPasswordExpire = NoExpire]
       IN  calls' = [calls EXCEPT
               ![c].pc = "resetSave",
               ![c].snap.user = user,
               ![c].snap.modified =
                   {"password"} \cup Differing(calls[c].snap.user, user)]
    /\ UNCHANGED <<storeVars, swVars, runs, balVars, accounts, sessions, clock>>

\* PUT /api/auth/resetpassword/:resettoken: user.save()
ResetSave(c) ==
    /\ calls[c].pc = "resetSave"
    /\ SaveThen(c, "done", PasswordReset)
    /\ UNCHANGED <<storeVars, swVars, runs, balVars, sessions, clock>>

FriendAdded == [code |-> 200, msg |-> "Friend added successfully"]
AddSelf == [code |-> 400, msg |-> "You can't add yourself as a friend."]
AlreadyFriend == [code |-> 400, msg |-> "User is already your friend"]
UserNotFound == [code |-> 404, msg |-> "User not found"]

\* POST /api/auth/friends: the check of the body and User.findById(req.user.id)
AddFriendFindUser(c, userId, friendId) ==
    /\ MayCall(c, userId)
    /\ \/ IF friendId = userId
          THEN calls' = [calls EXCEPT ![c] = Replied(calls[c], AddSelf)]
          ELSE calls' = [calls EXCEPT ![c] =
                   [IdleCall EXCEPT !.pc = "findFriend", !.userId = userId,
                                    !.arg = friendId, !.snap = Found(userId)]]
       \/ \* the store call throws
          /\ friendId # userId
          /\ calls' = [calls EXCEPT ![c] = Replied(calls[c], ServerError)]
    /\ UNCHANGED <<storeVars, swVars, runs, balVars, accounts, sessions, clock>>

\* POST /api/auth/friends: User.findById(friendId), and the check of the
\* friends list that the first read returned
AddFriendFindFriend(c) ==
    /\ calls[c].pc = "findFriend"
    /\ \/ IF calls[c].arg \notin DOMAIN accounts
          THEN calls' = [calls EXCEPT ![c] = Replied(calls[c], UserNotFound)]
          ELSE IF calls[c].arg \in Range(calls[c].snap.user.friends)
          THEN calls' = [calls EXCEPT ![c] = Replied(calls[c], AlreadyFriend)]
          ELSE calls' = [calls EXCEPT ![c].pc = "saveUser", ![c].snap = NoDoc]
       \/ \* the store call throws
          calls' = [calls EXCEPT ![c] = Replied(calls[c], ServerError)]
    /\ UNCHANGED <<storeVars, swVars, runs, balVars, accounts, sessions, clock>>

\* user.friends.push(friendId); await user.save(): the push reaches the store
\* as an atomic $push on the stored array
AddFriendSaveUser(c) ==
    /\ calls[c].pc = "saveUser"
    /\ \/ /\ accounts' = [accounts EXCEPT ![calls[c].userId].friends =
                              Append(@, calls[c].arg)]
          /\ calls' = [calls EXCEPT ![c].pc = "saveFriend"]
       \/ \* the save throws
          /\ calls' = [calls EXCEPT ![c] = Replied(calls[c], ServerError)]
          /\ UNCHANGED accounts
    /\ UNCHANGED <<storeVars, swVars, runs, balVars, sessions, clock>>

\* mutant: the reciprocal link is not written
AddFriendSaveFriendOneWay(c) ==
    /\ calls[c].pc = "saveFriend"
    /\ calls' = [calls EXCEPT ![c] = Replied(calls[c], FriendAdded)]
    /\ UNCHANGED <<storeVars, swVars, runs, balVars, accounts, sessions, clock>>

\* friend.friends.push(user._id); await friend.save()
AddFriendSaveFriend(c) ==
    /\ calls[c].pc = "saveFriend"
    /\ \/ /\ accounts' = [accounts EXCEPT ![calls[c].arg].friends =
                              Append(@, calls[c].userId)]
          /\ calls' = [calls EXCEPT ![c] = Replied(calls[c], FriendAdded)]
       \/ \* the save throws after the first write: 500, one link written
          /\ calls' = [calls EXCEPT ![c] =
                 [Replied(calls[c], ServerError) EXCEPT !.arg = "one link written"]]
          /\ UNCHANGED accounts
    /\ UNCHANGED <<storeVars, swVars, runs, balVars, sessions, clock>>

----------------------------------------------------------------------------
(* The expenses routes and the group view *)

NoGroup == 0

\* a request body without a splits array
NoSplits == <<[user |-> "(absent)", amount |-> 0]>>

\* what is left at the index of an expense that deleteOne removed
Removed ==
    [description |-> "(removed)", amount |-> 0, date |-> 0, paidBy |-> NoUser,
     group |-> NoGroup, addedBy |-> NoUser, splits |-> <<>>]

\* an answered request of these routes: who asked, about which document
Served(userId, id, response) ==
    [IdleCall EXCEPT !.pc = "done", !.userId = userId, !.gid = id,
                     !.res = response]

ExpenseNotFound == [code |-> 404, msg |-> "Expense not found"]
NotUploader(verb) ==
    [code |-> 401,
     msg |-> "Only the person who uploaded this expense can " \o verb \o " it"]
ExpenseRemoved == [code |-> 200, msg |-> "Expense removed"]
ExpenseAnswer(verb) == [code |-> 200, msg |-> verb]
NotAuthorized == [code |-> 401, msg |-> "Not authorized"]
GroupView(expenses, balances) ==
    [code |-> 200, msg |-> "group", expenses |-> expenses, balances |-> balances]

\* the Expense document of POST /api/expenses, as the schema keeps it: addedBy
\* (and items) are not paths of ExpenseSchema and are not stored; the body
\* gives no date, and the schema's default is Date.now
NewExpense(userId, description, amount, group, paidBy, splits) ==
    [description |-> description, amount |-> amount, date |-> Today,
     paidBy |-> IF paidBy = NoUser THEN userId ELSE paidBy,
     group |-> group, addedBy |-> NoUser, splits |-> splits]

\* expense.addedBy ? addedBy === req.user.id : paidBy === req.user.id
IsUploader(expense, userId) ==
    IF expense.addedBy # NoUser
    THEN expense.addedBy = userId
    ELSE expense.paidBy = userId

\* split.amount * ratio, ratio = newAmount / expense.amount
RECURSIVE Proportional(_, _, _)
Proportional(splits, newAmount, oldAmount) ==
    IF splits = <<>> THEN <<>>
    ELSE <<[user |-> Head(splits).user,
            amount |-> (Head(splits).amount * newAmount) \div oldAmount]>>
         \o Proportional(Tail(splits), newAmount, oldAmount)

\* the edits of PUT /api/expenses/:id; "" and 0 are an absent description and
\* an absent amount
Edited(expense, description, amount, splits) ==
    LET described == IF description # ""
                     THEN [expense EXCEPT !.description = description]
                     ELSE expense
        priced == IF amount # 0 /\ amount # expense.amount
                  THEN [described EXCEPT
                           !.splits = IF splits = NoSplits /\ expense.amount > 0
                                      THEN Proportional(@, amount, expense.amount)
                                      ELSE @,
                           !.amount = amount]
                  ELSE described
    IN  IF splits # NoSplits THEN [priced EXCEPT !.splits = splits] ELSE priced

\* POST /api/expenses: newExpense.save()
CreateExpense(c, userId, description, amount, group, paidBy, splits) ==
    /\ MayCall(c, userId)
    /\ Len(expenseDb) < MaxExpenses
    /\ \/ /\ expenseDb' = Append(expenseDb,
                 NewExpense(userId, description, amount, group, paidBy, splits))
          /\ calls' = [calls EXCEPT ![c] =
                 [IdleCall EXCEPT !.pc = "populate", !.userId = userId,
                                  !.gid = Len(expenseDb) + 1]]
       \/ \* the save throws
          /\ calls' = [calls EXCEPT ![c] = Served(userId, 0, ServerError)]
          /\ UNCHANGED expenseDb
    /\ UNCHANGED <<userDb, groupDb, swVars, runs, balVars, accounts, sessions, clock>>

\* POST /api/expenses: expense.populate([...]) of the stored expense, which
\* may throw, and the answer
PopulateExpense(c) ==
    /\ calls[c].pc = "populate"
    /\ \E response \in {ExpenseAnswer("added"), ServerError} :
           calls' = [calls EXCEPT ![c] =
               Served(calls[c].userId, calls[c].gid, response)]
    /\ UNCHANGED <<storeVars, swVars, runs, balVars, accounts, sessions, clock>>

\* the paths that the assignments of PUT /api/expenses/:id mark modified: a
\* path assigned another value, and an assigned array of splits
ModifiedPaths(expense, description, amount, splits) ==
    (IF description # "" /\ description # expense.description
     THEN {"description"} ELSE {})
    \cup (IF amount # 0 /\ amount # expense.amount
          THEN {"amount"} \cup (IF splits = NoSplits /\ expense.amount > 0
                                THEN {"splits"} ELSE {})
          ELSE {})
    \cup (IF splits # NoSplits THEN {"splits"} ELSE {})

\* Expense.findById(req.params.id) of DELETE and PUT and the check of the
\* requester; a fetched document waits in snap for the next store call
FindExpenseById(c, userId, id, verb, pc, local, body) ==
    /\ MayCall(c, userId)
    /\ \/ IF id \notin DOMAIN expenseDb \/ expenseDb[id] = Removed
          THEN calls' = [calls EXCEPT ![c] = Served(userId, id, ExpenseNotFound)]
          ELSE IF ~IsUploader(expenseDb[id], userId)
          THEN calls' = [calls EXCEPT ![c] = Served(userId, id, NotUploader(verb))]
          ELSE calls' = [calls EXCEPT ![c] =
                   [IdleCall EXCEPT !.pc = pc, !.userId = userId, !.gid = id,
                                    !.snap = local, !.body = body]]
       \/ \* the store call throws
          calls' = [calls EXCEPT ![c] = Served(userId, id, ServerError)]
    /\ UNCHANGED <<storeVars, swVars, runs, balVars, accounts, sessions, clock>>

\* DELETE /api/expenses/:id: Expense.findById
DeleteFind(c, userId, id) ==
    FindExpenseById(c, userId, id, "delete", "deleteOne",
                    IF id \in DOMAIN expenseDb THEN expenseDb[id] ELSE NoDoc,
                    NoDoc)

\* DELETE /api/expenses/:id: expense.deleteOne(), which resolves whether or not
\* the document is still stored
DeleteOne(c) ==
    /\ calls[c].pc = "deleteOne"
    /\ \/ /\ expenseDb' = [expenseDb EXCEPT ![calls[c].gid] = Removed]
          /\ calls' = [calls EXCEPT ![c] =
                 Served(calls[c].userId, calls[c].gid, ExpenseRemoved)]
       \/ \* the store call throws
          /\ calls' = [calls EXCEPT ![c] =
                 Served(calls[c].userId, calls[c].gid, ServerError)]
          /\ UNCHANGED expenseDb
    /\ UNCHANGED <<userDb, groupDb, swVars, runs, balVars, accounts, sessions, clock>>

\* PUT /api/expenses/:id: Expense.findById and the edits of the fetched document
UpdateFind(c, userId, id, description, amount, splits) ==
    FindExpenseById(c, userId, id, "edit", "updateSave",
        IF id \in DOMAIN expenseDb
        THEN Edited(expenseDb[id], description, amount, splits) ELSE NoDoc,
        IF id \in DOMAIN expenseDb
        THEN [modified |-> ModifiedPaths(expenseDb[id], description, amount, splits)]
        ELSE NoDoc)

\* PUT /api/expenses/:id: expense.save() writes the assigned paths into the
\* stored document. Nothing is written when the document has been removed in
\* the meantime; save() then rejects or resolves, by the version of Mongoose.
UpdateSave(c) ==
    /\ calls[c].pc = "updateSave"
    /\ LET id == calls[c].gid
       IN  \/ /\ expenseDb' =
                     IF expenseDb[id] = Removed THEN expenseDb
                     ELSE [expenseDb EXCEPT ![id] =
                              Saved(@, calls[c].snap, calls[c].body.modified)]
              /\ calls' = [calls EXCEPT ![c].pc = "updateReload",
                                        ![c].snap = NoDoc, ![c].body = NoDoc]
           \/ \* the save throws
              /\ calls' = [calls EXCEPT ![c] =
                     Served(calls[c].userId, id, ServerError)]
              /\ UNCHANGED expenseDb
    /\ UNCHANGED <<userDb, groupDb, swVars, runs, balVars, accounts, sessions, clock>>

\* PUT /api/expenses/:id: Expense.findById(expense._id).populate(...), which may
\* throw after the edit is stored, and the answer
UpdateReload(c) ==
    /\ calls[c].pc = "updateReload"
    /\ \E response \in {ExpenseAnswer("edited"), ServerError} :
           calls' = [calls EXCEPT ![c] =
               Served(calls[c].userId, calls[c].gid, response)]
    /\ UNCHANGED <<storeVars, swVars, runs, balVars, accounts, sessions, clock>>

\* .sort({ date: -1 }): the orders the store may answer in, latest first; it
\* promises no order among documents of one date
SortByDateDesc(exps) ==
    LET orders == {q \in [DOMAIN exps -> DOMAIN exps] :
                      /\ \A i, j \in DOMAIN exps : i # j => q[i] # q[j]
                      /\ \A i, j \in DOMAIN exps :
                             i < j => exps[q[i]].date >= exps[q[j]].date}
    IN  {[k \in DOMAIN exps |-> exps[q[k]]] : q \in orders}

\* Expense.find({ group }).sort({ date: -1 })
ExpensesOf(db, gid) == SortByDateDesc(SelectSeq(db, LAMBDA exp : exp.group = gid))

\* expenses.forEach of GET /api/groups/:id for one associated member
ViewBalance(expenses, memberId) ==
    LET balance[n \in 0..Len(expenses)] ==
            IF n = 0 THEN Zero ELSE Booked(balance[n - 1], expenses[n], memberId)
    IN  balance[Len(expenses)]

\* GET /api/groups/:id: Group.findById and the check of the requester
GetGroupFind(c, userId, gid) ==
    /\ MayCall(c, userId)
    /\ \/ IF gid \notin DOMAIN groupDb
          THEN calls' = [calls EXCEPT ![c] = Served(userId, gid, GroupNotFound)]
          ELSE IF userId \notin Range(groupDb[gid].members \o groupDb[gid].pastMembers)
          THEN calls' = [calls EXCEPT ![c] = Served(userId, gid, NotAuthorized)]
          ELSE calls' = [calls EXCEPT ![c] =
                   [IdleCall EXCEPT !.pc = "groupExpenses", !.userId = userId,
                                    !.gid = gid, !.snap = groupDb[gid]]]
       \/ \* the store call throws
          calls' = [calls EXCEPT ![c] = Served(userId, gid, ServerError)]
    /\ UNCHANGED <<storeVars, swVars, runs, balVars, accounts, sessions, clock>>

\* GET /api/groups/:id: Expense.find({ group }).sort({ date: -1 }), the balance
\* of every member and past member of the fetched group, and the answer
GetGroupExpenses(c) ==
    /\ calls[c].pc = "groupExpenses"
    /\ LET group == calls[c].snap
           allAssociatedMembers == group.members \o group.pastMembers
       IN  \/ \E expenses \in ExpensesOf(expenseDb, calls[c].gid) :
                  calls' = [calls EXCEPT ![c] =
                      Served(calls[c].userId, calls[c].gid,
                          GroupView(expenses,
                              [m \in Range(allAssociatedMembers) |->
                                  ViewBalance(expenses, m)]))]
           \/ \* the store call throws
              calls' = [calls EXCEPT ![c] =
                  Served(calls[c].userId, calls[c].gid, ServerError)]
    /\ UNCHANGED <<storeVars, swVars, runs, balVars, accounts, sessions, clock>>

----------------------------------------------------------------------------
(* Initial states *)

\* no call of the balance engine
IdleBal ==
    /\ bMembers = <<>>
    /\ bActive = 0
    /\ bExpenses = <<>>
    /\ bPhase = "off"
    /\ pairwise = NoMatrix
    /\ renetted = NoMatrix
    /\ summaries = <<>>
    /\ mailBodies = <<>>
    /\ job = IdleJob

\* no migration request, an empty ledger and an empty foreign account
IdleMig ==
    /\ userDb = [u \in MigUsers |-> NewUser]
    /\ groupDb = <<>>
    /\ expenseDb = <<>>
    /\ swGroups = <<>>
    /\ swExpenses = <<>>
    /\ swDeleted = <<>>
    /\ runs = [r \in Reqs |-> IdleRun]

\* a group created with POST /api/groups and an expense added with POST /api/expenses
TripGroup ==
    [name |-> "Trip", members |-> <<"u1">>, pastMembers |-> <<>>,
     settleUpDate |-> NoSettleDate,
     createdBy |-> "u1", note |-> ""]

TripLunch ==
    [description |-> "Lunch", amount |-> 10000, date |-> 0 - 10 * Day, paidBy |-> "u1",
     group |-> 1, addedBy |-> NoUser,
     splits |-> <<[user |-> "u1", amount |-> 10000]>>]

\* the same group after POST /api/groups/1/members added u2, and an expense of
\* it added on the day of a foreign expense
SharedTrip == [TripGroup EXCEPT !.members = <<"u1", "u2">>]

SharedLunch == [TripLunch EXCEPT !.date = ParseDate("2024-01-05T00:00:00Z")]

InitMig ==
    /\ userDb = [u \in MigUsers |-> NewUser]
    /\ \/ groupDb = <<TripGroup>> /\ expenseDb = <<TripLunch>>
       \/ groupDb = <<SharedTrip>> /\ expenseDb = <<SharedLunch>>
    /\ swGroups \in SwGroupLists
    /\ swExpenses \in SwExpenseMaps(Len(swGroups))
    /\ swDeleted = [g \in DOMAIN swGroups |-> 0]
    /\ runs = [r \in Reqs |-> IdleRun]

\* no account, no session and no request of the other routes
IdleApi ==
    /\ accounts = <<>>
    /\ sessions = {}
    /\ calls = [c \in Slots |-> IdleCall]
    /\ clock = 0

Init == IdleBal /\ InitMig /\ IdleApi

Next ==
    \/ \E r \in Reqs, u \in MigUsers, code \in OAuthCodes : PostMigrate(r, u, code)
    \/ \E r \in Reqs, u \in MigUsers, t \in ApiTokens : PostMigrateWithToken(r, u, t)
    \/ \E r \in Reqs : VerifyToken(r)
    \/ \E r \in Reqs : MarkPending(r)
    \/ \E r \in Reqs : FetchGroups(r)
    \/ \E r \in Reqs : FindLocalGroup(r)
    \/ \E r \in Reqs : CreateLocalGroup(r)
    \/ \E r \in Reqs : FetchExpenses(r)
    \/ \E r \in Reqs : FindExistingExpense(r)
    \/ \E r \in Reqs : SaveExpense(r)
    \/ \E r \in Reqs : MarkCompleted(r)

Spec == Init /\ [][Next]_vars

InitEngine == InitBal /\ IdleMig /\ IdleApi

SpecBal == InitEngine /\ [][NextBal]_vars

----------------------------------------------------------------------------
(* Group membership: the groups routes under interleaved requests *)

\* three registered users, all holding a token
ThreeAccounts ==
    ("u1" :> Account("ann@x.io", "ann", Hash("pw1")))
        @@ ("u2" :> Account("bob@x.io", "bob", Hash("pw1")))
        @@ ("u3" :> Account("cat@x.io", "cat", Hash("pw1")))

\* the emails a request may name: those of the accounts and one of nobody
GroupEmails == {"ann@x.io", "bob@x.io", "cat@x.io", "new@x.io"}

\* expenses of group 1 added with POST /api/expenses
Dinner ==
    [description |-> "Dinner", amount |-> 10000, date |-> 0 - 10 * Day, paidBy |-> "u1",
     group |-> 1, addedBy |-> NoUser,
     splits |-> <<[user |-> "u1", amount |-> 5000],
                  [user |-> "u2", amount |-> 5000]>>]

Settlement ==
    [description |-> "Settle up", amount |-> 5000, date |-> 0 - 9 * Day, paidBy |-> "u2",
     group |-> 1, addedBy |-> NoUser,
     splits |-> <<[user |-> "u1", amount |-> 5000]>>]

Penny ==
    [description |-> "Penny", amount |-> 20, date |-> 0 - 8 * Day, paidBy |-> "u2",
     group |-> 1, addedBy |-> NoUser,
     splits |-> <<[user |-> "u2", amount |-> 10]>>]

GroupLedgers == {<<>>, <<Dinner>>, <<Dinner, Settlement>>, <<Penny>>}

\* the group after u2 left it owing its share of the dinner
TripAfterLeave == [TripGroup EXCEPT !.pastMembers = <<"u2">>]

InitGroups ==
    /\ IdleBal
    /\ userDb = [u \in MigUsers |-> NewUser]
    /\ \/ groupDb = <<SharedTrip>> /\ expenseDb \in GroupLedgers
       \/ groupDb = <<TripAfterLeave>> /\ expenseDb = <<Dinner>>
    /\ swGroups = <<[id |-> 0, name |-> "Non-group", members |-> <<SwMe>>]>>
    /\ swExpenses = <<<<>>>>
    /\ swDeleted = <<0>>
    /\ runs = [r \in Reqs |-> IdleRun]
    /\ accounts = ThreeAccounts
    /\ sessions = Users
    /\ calls = [c \in Slots |-> IdleCall]
    /\ clock = 0

NextGroups ==
    \/ \E c \in Calls, u \in Users, members \in SeqsUpTo(Users, 1) :
           CreateGroup(c, u, "Trip", members)
    \/ \E c \in Calls, u \in Users, g \in 1..MaxGroups, email \in GroupEmails :
           AddMemberFind(c, u, g, email)
    \/ \E c \in Calls : AddMemberLookup(c)
    \/ \E c \in Calls : AddMemberInvite(c)
    \/ \E c \in Calls : AddMemberSave(c)
    \/ \E c \in Calls, u \in Users, g \in 1..MaxGroups : JoinFind(c, u, g)
    \/ \E c \in Calls : JoinSave(c)
    \/ \E c \in Calls, u \in Users, g \in 1..MaxGroups : LeaveFind(c, u, g)
    \/ \E c \in Calls : LeaveBalance(c)
    \/ \E c \in Calls : LeaveSave(c)
    \/ \E c \in Calls, u \in Users, g \in 1..MaxGroups :
           RenameFind(c, u, g, "Holiday")
    \/ \E c \in Calls : RenameSave(c)
    \/ \E c \in Calls, u \in Users, g \in 1..MaxGroups :
           NoteFind(c, u, g, "bring cash")
    \/ \E c \in Calls : NoteSave(c)
    \/ \E c \in Calls, u \in Users, g \in 1..MaxGroups,
          settleUpDate \in {"", "2024-01-05T00:00:00Z"} :
           SettleDateFind(c, u, g, settleUpDate)
    \/ \E c \in Calls : SettleDateSave(c)
    \* an expense of the first group added while other requests are under way
    \/ \E c \in Calls, u \in {"u1"} :
           CreateExpense(c, u, "Taxi", 10000, 1, NoUser,
                         <<[user |-> "u1", amount |-> 5000],
                           [user |-> "u2", amount |-> 5000]>>)
    \/ \E c \in Calls : PopulateExpense(c)
    \* one migration of a foreign account without expenses
    \/ \E u \in MigUsers : PostMigrateWithToken(1, u, " tok-good ")
    \/ VerifyToken(1)
    \/ MarkPending(1)
    \/ FetchGroups(1)
    \/ FindLocalGroup(1)
    \/ CreateLocalGroup(1)
    \/ FetchExpenses(1)
    \/ MarkCompleted(1)

SpecGroups == InitGroups /\ [][NextGroups]_vars

----------------------------------------------------------------------------
(* Properties of the balance netting engine (checked under SpecBal) *)

\* the obligations debtor -> creditor of one expense, summed over its splits
RECURSIVE SplitsOwed(_, _)
SplitsOwed(splits, debtor) ==
    IF splits = <<>> THEN 0
    ELSE (IF Head(splits).user = debtor THEN Head(splits).amount ELSE 0)
         + SplitsOwed(Tail(splits), debtor)

\* a running sum after the splits of debtor in one expense
RECURSIVE OwedAfter(_, _, _)
OwedAfter(sum, splits, debtor) ==
    IF splits = <<>> THEN sum
    ELSE OwedAfter(IF Head(splits).user = debtor
                   THEN Plus(sum, Number(Head(splits).amount)) ELSE sum,
                   Tail(splits), debtor)

\* what debtor owes creditor before netting: the split amounts of debtor in
\* the expenses creditor paid, added up in the order of the lists
GrossOwed(expenses, debtor, creditor) ==
    LET sum[n \in 0..Len(expenses)] ==
            IF n = 0 THEN Zero
            ELSE IF expenses[n].paidBy = creditor
            THEN OwedAfter(sum[n - 1], expenses[n].splits, debtor)
            ELSE sum[n - 1]
    IN  sum[Len(expenses)]

MemberPairs == {p \in Range(bMembers) \X Range(bMembers) : p[1] # p[2]}

\* C1: in the matrix returned by computeBalances, for every pair of distinct
\* members at most one direction is nonzero and no entry is negative.
C1_NettedOneDirection ==
    bPhase = "computed" =>
        \A p \in MemberPairs :
            /\ ~pairwise[p[1]][p[2]].neg
            /\ pairwise[p[1]][p[2]] = Zero \/ pairwise[p[2]][p[1]] = Zero

\* a call whose gross obligations ran in both directions for some pair
C1_Witness ==
    /\ bPhase = "computed"
    /\ \E p \in MemberPairs :
          /\ Gt(GrossOwed(bExpenses, p[1], p[2]), GrossOwed(bExpenses, p[2], p[1]))
          /\ Gt(GrossOwed(bExpenses, p[2], p[1]), Zero)
          /\ Gt(pairwise[p[1]][p[2]], Zero)

\* C2: after netting, matrix[A][B] - matrix[B][A] equals the signed
\* difference of the gross obligations (what A owes B minus what B owes A),
\* both differences taken as the program subtracts.
C2_SignedDifferencePreserved ==
    bPhase = "computed" =>
        \A p \in MemberPairs :
            Minus(pairwise[p[1]][p[2]], pairwise[p[2]][p[1]])
                = Minus(GrossOwed(bExpenses, p[1], p[2]),
                        GrossOwed(bExpenses, p[2], p[1]))

\* a call in which the pair's smaller gross side was cancelled and the
\* difference 0.014 - 0.009 is not the double 0.005
C2_Witness ==
    /\ bPhase = "computed"
    /\ \E p \in MemberPairs :
          /\ GrossOwed(bExpenses, p[1], p[2]) = Number(14)
          /\ GrossOwed(bExpenses, p[2], p[1]) = Number(9)
          /\ pairwise[p[1]][p[2]] = Minus(Number(14), Number(9))
          /\ pairwise[p[1]][p[2]] # Number(5)
          /\ pairwise[p[2]][p[1]] = Zero

\* the amounts listed on one side ("owes" or "owedBy") of the summaries of
\* all members, added up without rounding

\* the amounts listed on one side ("owes" or "owedBy") of the summaries of
\* the members from the k-th on, added to total without rounding (a summary
\* lists at most two of the three users)

\* the amounts of the rows from the k-th on, added to total without rounding
RECURSIVE RowsTotal(_, _, _)
RowsTotal(rows, k, total) ==
    IF k > Len(rows) THEN total
    ELSE RowsTotal(rows, k + 1, ExactPlus(total, rows[k].amount.mag))

\* the amounts listed on one side ("owes" or "owedBy") of the summaries of
\* the members from the k-th on, added to total without rounding
RECURSIVE ListedTotal(_, _, _)
ListedTotal(k, side, total) ==
    IF k > Len(bMembers) THEN total
    ELSE ListedTotal(k + 1, side,
             RowsTotal(buildMemberSummary(bMembers[k], pairwise, bMembers)[side],
                       1, total))

\* C3: conservation: over all members of the list, the sum of
\* (sum of owedBy amounts - sum of owes amounts) is zero: the listed amounts
\* are positive, and the owedBy amounts of all members add up to what the
\* owes amounts of all members add up to.
C3_Conservation ==
    bPhase = "summarised" =>
        /\ ListedTotal(1, "owedBy", Zero.mag) = ListedTotal(1, "owes", Zero.mag)
        /\ \A m \in DOMAIN summaries :
               /\ summaries[m] = buildMemberSummary(m, pairwise, bMembers)
               /\ \A k \in DOMAIN summaries[m].owes :
                      ~summaries[m].owes[k].amount.neg

\* summaries with a listed debt and a netted entry below the threshold
C3_Witness ==
    /\ bPhase = "summarised"
    /\ \E m \in DOMAIN summaries : summaries[m].owes # <<>>
    /\ \E m \in DOMAIN summaries : summaries[m].owedBy # <<>>
    /\ \E p \in MemberPairs :
          /\ Gt(pairwise[p[1]][p[2]], Zero)
          /\ ~Gt(pairwise[p[1]][p[2]], Threshold)

\* C4: netting idempotence: the netting pass applied to the netted matrix
\* leaves every entry unchanged.
C4_NettingIdempotent ==
    bPhase = "summarised" => renetted = pairwise

\* a re-netted matrix with debts in it, after opposing obligations were netted
C4_Witness ==
    /\ bPhase = "summarised"
    /\ renetted # NoMatrix
    /\ \E p \in MemberPairs :
          /\ Gt(renetted[p[1]][p[2]], Zero)
          /\ Gt(GrossOwed(bExpenses, p[2], p[1]), Zero)

----------------------------------------------------------------------------
(* Properties of the migration pipeline (checked under Spec) *)

StatusOf(db, u) == db[u].splitwiseMigrationStatus

\* request r takes the step
Steps(r) == runs'[r] # runs[r]

\* the positions of runMigration after step 2 and before its answer
AfterPending ==
    {"fetchGroups", "findGroup", "createGroup", "fetchExpenses",
     "findExpense", "saveExpense", "markCompleted"}

\* request q answered with the success summary
Succeeded(q) == runs[q].pc = "done" /\ runs[q].res.code = 200

\* request q succeeded and none of its get_expenses calls had failed
SucceededWithoutSkip(q) ==
    Succeeded(q) /\ runs[q].res.groupsCount = Len(swGroups)

\* C5: of two consecutive runs of the same user against the same foreign
\* data, the first having answered with the success summary without skipping
\* a group, the second inserts no expense: the number of stored expenses stays
\* what it was after the first run.
C5_SecondRunInsertsNothing ==
    [][\A r \in Reqs \ {1} :
          (SucceededWithoutSkip(r - 1) /\ Steps(r)
              /\ runs'[r].userId = runs[r - 1].userId)
              => Len(expenseDb') = Len(expenseDb)]_vars

\* C6: a run creates Group and Expense records only while the user's status
\* is stored as 'pending', and at every point of the run after step 2 (where
\* it may stop) the stored status is 'pending'.
C6_PendingBeforeWrites ==
    [][\A r \in Reqs :
          /\ (Steps(r) /\ (groupDb' # groupDb \/ expenseDb' # expenseDb))
                => /\ StatusOf(userDb, runs[r].userId) = "pending"
                   /\ StatusOf(userDb', runs[r].userId) = "pending"
          /\ runs'[r].pc \in AfterPending
                => StatusOf(userDb', runs'[r].userId) = "pending"]_vars

\* a run in the middle of a group, having created a group and an expense
C6_Witness ==
    \E r \in Reqs :
        /\ runs[r].pc = "findExpense"
        /\ runs[r].totalExpenses = 1
        /\ runs[r].group = Len(groupDb)
        /\ groupDb[runs[r].group].note = "Imported from Splitwise"
        /\ StatusOf(userDb, runs[r].userId) = "pending"

\* C7: the code exchange and the token verification change no User, Group or
\* Expense record, and a request that ends there ends with an auth error.
C7_AuthFailureMutatesNothing ==
    [][\A r \in Reqs :
          (Steps(r) /\ runs[r].pc \in {"idle", "verify"})
              => /\ UNCHANGED storeVars
                 /\ runs'[r].pc = "done" => runs'[r].res.code \in {400, 401}]_vars

\* a failed code exchange and then a rejected token, the ledger as it was
C7_Witness ==
    /\ runs[1].pc = "done" /\ runs[1].res = OAuthFailed
    /\ runs[2].pc = "done" /\ runs[2].res = InvalidToken
    /\ runs[1].userId = runs[2].userId
    /\ StatusOf(userDb, runs[2].userId) = "none"
    /\ userDb[runs[2].userId].splitwiseToken = NoToken
    /\ groupDb = <<TripGroup>>
    /\ expenseDb = <<TripLunch>>
    /\ swGroups # <<>>

\* C8 (as claimed): every change of a user's status is none -> pending or
\* pending -> completed.
C8_StatusTransitions_Original ==
    [][\A u \in MigUsers :
          StatusOf(userDb', u) # StatusOf(userDb, u)
              => \/ StatusOf(userDb, u) = "none" /\ StatusOf(userDb', u) = "pending"
                 \/ StatusOf(userDb, u) = "pending" /\ StatusOf(userDb', u) = "completed"]_vars

\* C8 (amended): every change of a user's status is none -> pending,
\* pending -> completed, or completed -> pending (a run after a completed one).
C8_StatusTransitions ==
    [][\A u \in MigUsers :
          StatusOf(userDb', u) # StatusOf(userDb, u)
              => \/ StatusOf(userDb, u) = "none" /\ StatusOf(userDb', u) = "pending"
                 \/ StatusOf(userDb, u) = "pending" /\ StatusOf(userDb', u) = "completed"
                 \/ StatusOf(userDb, u) = "completed" /\ StatusOf(userDb', u) = "pending"]_vars

\* a second run of a user whose first run completed, back at 'pending'
C8_Witness ==
    \E r \in Reqs \ {1} :
        /\ Succeeded(r - 1)
        /\ runs[r].userId = runs[r - 1].userId
        /\ runs[r].pc = "fetchGroups"
        /\ StatusOf(userDb, runs[r].userId) = "pending"

\* C9: a run that ends while listing the foreign groups or finding/creating a
\* local group answers with a failure (500) and leaves the status 'pending'.
C9_GroupStepFailureLeavesPending ==
    [][\A r \in Reqs :
          (Steps(r) /\ runs[r].pc \in {"fetchGroups", "findGroup", "createGroup"}
              /\ runs'[r].pc = "done")
              => /\ runs'[r].res.code = 500
                 /\ StatusOf(userDb', runs'[r].userId) = "pending"]_vars

\* get_groups failed in a first run: failure reported, status 'pending'
C9_Witness ==
    /\ runs[1].pc = "done"
    /\ runs[1].res = MigrationFailed("upstream")
    /\ runs[2].pc = "idle"
    /\ StatusOf(userDb, runs[1].userId) = "pending"

\* the local group of foreign group g holds every importable expense of g
GroupImported(u, g) ==
    LET local == FindGroup(groupDb', TargetName(swGroups[g]), u)
    IN  /\ local # 0
        /\ \A k \in DOMAIN swExpenses[g] :
              Importable(swExpenses[g][k]) =>
                  \E x \in DOMAIN expenseDb' :
                      /\ expenseDb'[x].description = DescriptionOf(swExpenses[g][k])
                      /\ expenseDb'[x].amount = Abs(ParseFloat(swExpenses[g][k].cost).val)
                      /\ expenseDb'[x].group = local
                      /\ expenseDb'[x].paidBy = u

\* C10: a failed get_expenses does not end the run: the loop goes on with the
\* next group, and a run that skipped a group and reaches its end answers
\* (unless its last store call throws) with the success summary, the status
\* 'completed' and every other group imported.
C10_FailedGroupFetchIsSkipped ==
    [][\A r \in Reqs :
          /\ (Steps(r) /\ runs[r].pc = "fetchExpenses")
                => /\ runs'[r].pc \in {"findExpense", "findGroup", "markCompleted"}
                   /\ UNCHANGED storeVars
          /\ (Steps(r) /\ runs[r].pc = "markCompleted" /\ runs[r].skipped # {}
                /\ runs'[r].res # MigrationFailed("store"))
                => /\ runs'[r].res.code = 200
                   /\ StatusOf(userDb', runs[r].userId) = "completed"
                   /\ runs'[r].res.groupsCount
                          = Len(swGroups) - Cardinality(runs[r].skipped)
                   /\ \A g \in DOMAIN swGroups \ runs[r].skipped :
                          GroupImported(runs[r].userId, g)]_vars

\* a completed run that skipped one group and imported an expense of the other
C10_Witness ==
    \E r \in Reqs :
        /\ Succeeded(r)
        /\ Len(swGroups) = 2
        /\ runs[r].res.groupsCount = 1
        /\ runs[r].res.expensesCount >= 1
        /\ StatusOf(userDb, runs[r].userId) = "completed"

\* the document a run at position findExpense or saveExpense is about to import
PendingDoc(r) == ImportedExpense(r, runs[r], swExpenses[runs[r].gi][runs[r].ei])

\* a stored expense with the description, amount, date and group of doc
SameExpenseStored(db, doc) ==
    \E x \in DOMAIN db :
        /\ db[x].description = doc.description
        /\ db[x].amount = doc.amount
        /\ db[x].date = doc.date
        /\ db[x].group = doc.group

\* the duplicate check of request r found a document: the loop moves on
SkippedAsDuplicate(r) ==
    /\ runs[r].pc = "findExpense"
    /\ runs'[r] = ContinueExpenses(runs[r], runs[r].ei + 1)

\* the paths on which the duplicate check has to agree
DuplicatePaths == {"description", "amount", "date", "group"}

C12_NoInsertOverStoredMatch ==
    [][\A r \in Reqs :
          (runs[r].pc = "saveExpense" /\ expenseDb' # expenseDb)
              => ~SameExpenseStored(expenseDb, PendingDoc(r))]_vars

\* no two groups of the same name share a member
NoTwinGroups(db) ==
    \A g, h \in DOMAIN db :
        (g # h /\ db[g].name = db[h].name)
            => Range(db[g].members) \cap Range(db[h].members) = {}

\* C13: a run reuses a group that has the target name and the migrating user
\* as a member; it creates a group, with the provenance note and the user as
\* only member and creator, only when no such group exists; and no two groups
\* of the same name ever contain the same user.
C13_FindOrCreateGroup ==
    [][\A r \in Reqs :
          LET u == runs[r].userId
              name == TargetName(swGroups[runs[r].gi])
              matches == {g \in DOMAIN groupDb :
                             /\ groupDb[g].name = name
                             /\ u \in Range(groupDb[g].members)}
          IN  /\ (runs[r].pc = "findGroup" /\ runs'[r].pc = "fetchExpenses")
                    => runs'[r].group \in matches
              /\ (runs[r].pc = "findGroup" /\ runs'[r].pc = "createGroup")
                    => matches = {}
              /\ (Steps(r) /\ groupDb' # groupDb)
                    => /\ matches = {}
                       /\ groupDb' = Append(groupDb,
                              [name |-> name, members |-> <<u>>,
                               pastMembers |-> <<>>,
                               settleUpDate |-> NoSettleDate, createdBy |-> u,
                               note |-> "Imported from Splitwise"])
                       /\ runs'[r].group = Len(groupDb')
              /\ NoTwinGroups(groupDb')]_vars

\* a second member of a shared group migrates: the group is reused for one
\* foreign group and a group is created for the other
C13_Witness ==
    \E r \in Reqs :
        /\ Succeeded(r)
        /\ runs[r].userId = "u2"
        /\ groupDb[1] = SharedTrip
        /\ Len(groupDb) = 2
        /\ groupDb[2].createdBy = "u2"
        /\ \E i \in DOMAIN swGroups : swGroups[i].name = "Trip"

----------------------------------------------------------------------------
(* Accounts: registration, ghost promotion, password reset, friends *)

\* a registered user, friend of the ghost that an import created for the
\* co-member of its group
AnnAccount ==
    [Account("ann@x.io", "ann", Hash("pw1")) EXCEPT !.friends = <<"u2">>]

GhostGil ==
    [email |-> "gil@x.io", username |-> "Gil (imported)",
     password |-> Hash("(random)"), isGhostUser |-> TRUE,
     friends |-> <<"u1">>, resetPasswordToken |-> NoResetToken,
     resetPasswordExpire |-> NoExpire]

RegEmails == {"ann@x.io", "gil@x.io", "Gil@x.io"}
RegNames == {"gil", "zed"}
\* the addresses of the ghost and of nobody
AuthEmails == {"gil@x.io", "new@x.io"}
Passwords == {"pw1", "pw2"}

InitAccounts ==
    /\ IdleBal
    /\ userDb = [u \in MigUsers |-> NewUser]
    /\ groupDb = <<SharedTrip>>
    /\ expenseDb = <<Dinner>>
    /\ swGroups = <<>>
    /\ swExpenses = <<>>
    /\ swDeleted = <<>>
    /\ runs = [r \in Reqs |-> IdleRun]
    /\ accounts = ("u1" :> AnnAccount) @@ ("u2" :> GhostGil)
    /\ sessions = {"u1"}
    /\ calls = [c \in Slots |-> IdleCall]
    /\ clock = 0

NextAccounts ==
    \/ \E c \in Visitors, username \in RegNames, email \in RegEmails :
           RegisterFind(c, username, email, "pw1")
    \/ \E c \in Visitors : RegisterSalt(c)
    \/ \E c \in Visitors : RegisterHash(c)
    \/ \E c \in Visitors : RegisterSave(c)
    \/ \E c \in Visitors, email \in AuthEmails, password \in Passwords :
           LoginFind(c, email, password)
    \/ \E c \in Visitors : LoginCompare(c)
    \/ \E c \in Visitors, email \in AuthEmails, resetToken \in ResetTokens,
          now \in Instants :
           ForgotFind(c, email, resetToken, now)
    \/ \E c \in Visitors : ForgotSave(c)
    \/ \E c \in Visitors : ForgotMail(c)
    \/ \E c \in Visitors : ForgotClear(c)
    \/ \E c \in Visitors, resettoken \in ResetTokens, now \in Instants :
           ResetQuery(c, resettoken, "pw2", now)
    \/ \E c \in Visitors : ResetFind(c)
    \/ \E c \in Visitors : ResetSalt(c)
    \/ \E c \in Visitors : ResetHash(c)
    \/ \E c \in Visitors : ResetSave(c)

SpecAccounts == InitAccounts /\ [][NextAccounts]_vars

\* registrations, password resets and logins for the address of the ghost, and
\* a migration of a foreign account without groups by the ghost once it has
\* signed in
NextPromotion ==
    \/ \E c \in Visitors, username \in RegNames :
           RegisterFind(c, username, "gil@x.io", "pw1")
    \/ \E c \in Visitors : RegisterSalt(c)
    \/ \E c \in Visitors : RegisterHash(c)
    \/ \E c \in Visitors : RegisterSave(c)
    \/ \E c \in Visitors, email \in AuthEmails, password \in Passwords :
           LoginFind(c, email, password)
    \/ \E c \in Visitors : LoginCompare(c)
    \/ \E c \in Visitors : ForgotFind(c, "gil@x.io", "tok1", 0)
    \/ \E c \in Visitors : ForgotSave(c)
    \/ \E c \in Visitors : ForgotMail(c)
    \/ \E c \in Visitors : ForgotClear(c)
    \/ \E c \in Visitors : ResetQuery(c, "tok1", "pw2", 0)
    \/ \E c \in Visitors : ResetFind(c)
    \/ \E c \in Visitors : ResetSalt(c)
    \/ \E c \in Visitors : ResetHash(c)
    \/ \E c \in Visitors : ResetSave(c)
    \/ "u2" \in sessions /\ PostMigrateWithToken(1, "u2", " tok-good ")
    \/ VerifyToken(1)
    \/ MarkPending(1)
    \/ FetchGroups(1)
    \/ MarkCompleted(1)

SpecPromotion == InitAccounts /\ [][NextPromotion]_vars

\* registration and the friends route, requests interleaved
NextFriends ==
    \/ \E c \in Visitors, username \in RegNames, email \in RegEmails :
           RegisterFind(c, username, email, "pw1")
    \/ \E c \in Visitors : RegisterSalt(c)
    \/ \E c \in Visitors : RegisterHash(c)
    \/ \E c \in Visitors : RegisterSave(c)
    \/ \E c \in Calls, u \in Users, f \in Users : AddFriendFindUser(c, u, f)
    \/ \E c \in Calls : AddFriendFindFriend(c)
    \/ \E c \in Calls : AddFriendSaveUser(c)
    \/ \E c \in Calls : AddFriendSaveFriend(c)

SpecFriends == InitAccounts /\ [][NextFriends]_vars

----------------------------------------------------------------------------
(* One migration of a registered user, against foreign groups whose expense
   lists may run past the limit of one get_expenses request *)

InitImport ==
    /\ IdleBal
    /\ userDb = [u \in MigUsers |-> NewUser]
    /\ \/ groupDb = <<>> /\ expenseDb = <<>>
       \/ groupDb = <<TripGroup>> /\ expenseDb = <<TripLunch>>
       \/ groupDb = <<TripAfterLeave>> /\ expenseDb = <<TripLunch>>
    /\ swGroups \in SwGroupLists
    /\ swExpenses \in SwExpenseMaps(Len(swGroups))
    /\ swDeleted \in [DOMAIN swGroups -> {0, ExpenseLimit - 1, ExpenseLimit}]
    /\ runs = [r \in Reqs |-> IdleRun]
    /\ accounts = ThreeAccounts
    /\ sessions = Users
    /\ calls = [c \in Slots |-> IdleCall]
    /\ clock = 0

NextImport ==
    \/ PostMigrateWithToken(1, "u1", " tok-good ")
    \/ VerifyToken(1)
    \/ MarkPending(1)
    \/ FetchGroups(1)
    \/ FindLocalGroup(1)
    \/ CreateLocalGroup(1)
    \/ FetchExpenses(1)
    \/ FindExistingExpense(1)
    \/ SaveExpense(1)
    \/ MarkCompleted(1)

SpecImport == InitImport /\ [][NextImport]_vars

\* one await of runMigration returns: every foreign-API and store call of the
\* run comes back, with a result or with an error
RunStep(r) ==
    \/ VerifyToken(r)
    \/ MarkPending(r)
    \/ FetchGroups(r)
    \/ FindLocalGroup(r)
    \/ CreateLocalGroup(r)
    \/ FetchExpenses(r)
    \/ FindExistingExpense(r)
    \/ SaveExpense(r)
    \/ MarkCompleted(r)

\* the run of SpecImport when no call of it stays pending for ever
SpecImportFair == SpecImport /\ WF_vars(RunStep(1))

----------------------------------------------------------------------------
(* Two users migrating at the same time from the same foreign account *)

InitTwo ==
    /\ IdleBal
    /\ userDb = [u \in MigUsers |-> NewUser]
    /\ groupDb = <<SharedTrip>>
    /\ expenseDb = <<SharedLunch>>
    /\ swGroups \in SwGroupLists
    /\ swExpenses \in SwExpenseMaps(Len(swGroups))
    /\ swDeleted = [g \in DOMAIN swGroups |-> 0]
    /\ runs = [r \in Reqs |-> IdleRun]
    /\ accounts = ThreeAccounts
    /\ sessions = Users
    /\ calls = [c \in Slots |-> IdleCall]
    /\ clock = 0

\* the user of request slot r
TwoUser(r) == IF r = 1 THEN "u1" ELSE "u2"

NextTwo ==
    \/ \E r \in 1..2 : StartMigration(r, TwoUser(r), "tok-good")
    \/ \E r \in 1..2 : VerifyToken(r)
    \/ \E r \in 1..2 : MarkPending(r)
    \/ \E r \in 1..2 : FetchGroups(r)
    \/ \E r \in 1..2 : FindLocalGroup(r)
    \/ \E r \in 1..2 : CreateLocalGroup(r)
    \/ \E r \in 1..2 : FetchExpenses(r)
    \/ \E r \in 1..2 : FindExistingExpense(r)
    \/ \E r \in 1..2 : SaveExpense(r)
    \/ \E r \in 1..2 : MarkCompleted(r)

SpecTwo == InitTwo /\ [][NextTwo]_vars

----------------------------------------------------------------------------
(* The daily settle-up job of startSettleUpScheduler *)

\* a second group, of three members
FlatGroup ==
    [name |-> "Flat", members |-> <<"u2", "u3", "u1">>, pastMembers |-> <<>>,
     settleUpDate |-> NoSettleDate,
     createdBy |-> "u2", note |-> ""]

\* the zones of the server: local time is UTC + zone
ServerZones == {0, 0 - 5 * Hour}

\* new Date(now.getFullYear(), now.getMonth(), now.getDate()): the instant the
\* local day of `now` begins at
StartOfDay(now, zone) == ((now + zone) \div Day) * Day - zone

\* new Date(now.getFullYear(), now.getMonth(), now.getDate(), 23, 59, 59): the
\* instant the last second of that day begins at
EndOfDay(now, zone) == StartOfDay(now, zone) + Day - 1000

\* .populate('members pastMembers', 'username email')
Populated(ids) ==
    [k \in DOMAIN ids |-> [id |-> ids[k], username |-> accounts[ids[k]].username,
                           email |-> accounts[ids[k]].email]]

\* Group.find({ settleUpDate: { $gte: startOfDay, $lte: endOfDay } }): the
\* documents of the groups whose settle-up date is in the range, in store order
RECURSIVE DueGroups(_, _, _)
DueGroups(startOfDay, endOfDay, g) ==
    IF g > Len(groupDb) THEN <<>>
    ELSE (IF /\ groupDb[g].settleUpDate # NoSettleDate
             /\ groupDb[g].settleUpDate[1] >= startOfDay
             /\ groupDb[g].settleUpDate[1] <= endOfDay
          THEN <<[id |-> g, name |-> groupDb[g].name,
                  settleUpDate |-> groupDb[g].settleUpDate,
                  members |-> Populated(groupDb[g].members),
                  pastMembers |-> Populated(groupDb[g].pastMembers)]>>
          ELSE <<>>)
         \o DueGroups(startOfDay, endOfDay, g + 1)

\* [...group.members, ...group.pastMembers] of a fetched group, as the ids
\* that computeBalances and buildMemberSummary read
AllMembers(group) ==
    [k \in DOMAIN (group.members \o group.pastMembers) |->
        (group.members \o group.pastMembers)[k].id]

\* the job after the body of `for (const group of groups)` for group j.gi
NextGroup(j) ==
    IF j.gi < Len(j.groups)
    THEN [j EXCEPT !.pc = "expenses", !.gi = @ + 1, !.mi = 0,
                   !.pairwise = NoMatrix]
    ELSE [j EXCEPT !.pc = "done", !.pairwise = NoMatrix]

\* the job after the body of `for (const member of group.members)`
NextMember(j) ==
    IF j.mi < Len(j.groups[j.gi].members)
    THEN [j EXCEPT !.mi = @ + 1]
    ELSE NextGroup(j)

\* what the job hands to sendEmail for member j.mi of group j.gi
MailFor(j) ==
    LET group == j.groups[j.gi]
        member == group.members[j.mi]
    IN  [group |-> group.id, email |-> member.email,
         message |-> buildEmailBody(
                         buildMemberSummary(member.id, j.pairwise,
                                            AllMembers(group)))]

\* try { await sendEmail(...) } catch (emailErr) { console.error(...) }
Sent(j, ok) ==
    NextMember([j EXCEPT !.sends = Append(@, MailFor(j) @@ [ok |-> ok])])

\* cron.schedule('0 8 * * *'): the callback starts at 08:00 of the server's
\* day, reads the clock and sends the Group.find of the day's range
RunJob ==
    /\ job.pc = "idle"
    /\ (clock + job.zone) % Day = 8 * Hour
    /\ job' = [job EXCEPT !.pc = "groups", !.now = clock,
                          !.startOfDay = StartOfDay(clock, job.zone),
                          !.endOfDay = EndOfDay(clock, job.zone)]
    /\ UNCHANGED <<bMembers, bActive, bExpenses, bPhase, pairwise, renetted, summaries,
                   mailBodies>>
    /\ UNCHANGED <<migVars, apiVars>>

\* Group.find is answered
FindGroups ==
    /\ job.pc = "groups"
    /\ \/ job' = NextGroup([job EXCEPT !.groups =
                               DueGroups(job.startOfDay, job.endOfDay, 1)])
       \/ \* Group.find rejects: the outer catch logs and the job is over
          job' = [job EXCEPT !.pc = "done", !.readFailed = TRUE]
    /\ UNCHANGED <<bMembers, bActive, bExpenses, bPhase, pairwise, renetted, summaries,
                   mailBodies>>
    /\ UNCHANGED <<migVars, apiVars>>

\* Expense.find({ group: group._id }) and computeBalances
FindExpenses ==
    /\ job.pc = "expenses"
    /\ LET group == job.groups[job.gi]
           expenses == SelectSeq(expenseDb, LAMBDA e : e.group = group.id)
           loaded == [job EXCEPT !.pairwise =
                                     computeBalances(expenses, AllMembers(group))]
       IN  \/ job' = IF Len(group.members) = 0 THEN NextGroup(loaded)
                     ELSE [loaded EXCEPT !.pc = "member", !.mi = 1]
           \/ \* Expense.find rejects: the outer catch logs and the job is over
              job' = [job EXCEPT !.pc = "done", !.readFailed = TRUE]
    /\ UNCHANGED <<bMembers, bActive, bExpenses, bPhase, pairwise, renetted, summaries,
                   mailBodies>>
    /\ UNCHANGED <<migVars, apiVars>>

\* one sendEmail call, delivered or rejected
SendEmail ==
    /\ job.pc = "member"
    /\ \E ok \in BOOLEAN : job' = Sent(job, ok)
    /\ UNCHANGED <<bMembers, bActive, bExpenses, bPhase, pairwise, renetted, summaries,
                   mailBodies>>
    /\ UNCHANGED <<migVars, apiVars>>

\* the settle-up dates of the stored groups: none, or one that
\* PUT /api/groups/:id/settle-date stored
SettleDates ==
    {NoSettleDate, <<ParseDate("2024-01-05T00:00:00Z")>>,
     <<ParseDate("2024-01-05T23:59:59.500Z")>>,
     <<ParseDate("2024-01-06T00:00:00Z")>>}

\* two stored groups on 2024-01-05 at 08:00 of the server's day
InitSched ==
    /\ bMembers = <<>>
    /\ bActive = 0
    /\ bExpenses = <<>>
    /\ bPhase = "off"
    /\ pairwise = NoMatrix
    /\ renetted = NoMatrix
    /\ summaries = <<>>
    /\ mailBodies = <<>>
    /\ userDb = [u \in MigUsers |-> NewUser]
    /\ \E docs \in {<<SharedTrip, FlatGroup>>, <<TripAfterLeave, FlatGroup>>},
          dates \in [1..2 -> SettleDates] :
           groupDb = [g \in 1..2 |-> [docs[g] EXCEPT !.settleUpDate = dates[g]]]
    /\ expenseDb \in {<<Dinner>>, <<Dinner, Settlement>>}
    /\ swGroups = <<>>
    /\ swExpenses = <<>>
    /\ swDeleted = <<>>
    /\ runs = [r \in Reqs |-> IdleRun]
    /\ accounts = ThreeAccounts
    /\ sessions = Users
    /\ calls = [c \in Slots |-> IdleCall]
    /\ \E zone \in ServerZones :
           /\ clock = ParseDate("2024-01-05T00:00:00Z") + 8 * Hour - zone
           /\ job = [IdleJob EXCEPT !.zone = zone]

\* the job, and requests that change the groups while it runs
NextSched ==
    \/ RunJob
    \/ FindGroups
    \/ FindExpenses
    \/ SendEmail
    \/ \E c \in Calls : JoinFind(c, "u3", 1)
    \/ \E c \in Calls : JoinSave(c)
    \/ \E c \in Calls, g \in 1..2 : LeaveFind(c, "u2", g)
    \/ \E c \in Calls : LeaveBalance(c)
    \/ \E c \in Calls : LeaveSave(c)
    \/ \E c \in Calls, g \in 1..2,
          settleUpDate \in {"", "2024-01-05T23:59:59.500Z"} :
           SettleDateFind(c, "u1", g, settleUpDate)
    \/ \E c \in Calls : SettleDateSave(c)

SpecSched == InitSched /\ [][NextSched]_vars

----------------------------------------------------------------------------
(* Expenses and the group view *)

\* a lunch that u2 paid
LegacyLunch == [TripLunch EXCEPT !.paidBy = "u2"]

\* an expense of the group for what u2 paid
PaidByOther ==
    [Dinner EXCEPT !.paidBy = "u2", !.description = "Tickets"]

ExpenseLedgers == {<<>>, <<Dinner>>, <<LegacyLunch>>, <<PaidByOther>>}

BodySplits ==
    {<<[user |-> "u1", amount |-> 5000], [user |-> "u2", amount |-> 5000]>>,
     <<[user |-> "u2", amount |-> 4000]>>}

InitExpenses ==
    /\ IdleBal
    /\ userDb = [u \in MigUsers |-> NewUser]
    /\ \/ groupDb = <<SharedTrip>> /\ expenseDb \in ExpenseLedgers
       \/ groupDb = <<TripAfterLeave>> /\ expenseDb = <<Dinner>>
    /\ swGroups = <<>>
    /\ swExpenses = <<>>
    /\ swDeleted = <<>>
    /\ runs = [r \in Reqs |-> IdleRun]
    /\ accounts = ThreeAccounts
    /\ sessions = Users
    /\ calls = [c \in Slots |-> IdleCall]
    /\ clock = 0

NextExpenses ==
    \/ \E c \in Calls, u \in Users, group \in {NoGroup, 1}, paidBy \in {NoUser, "u2"},
          splits \in BodySplits :
           CreateExpense(c, u, "Taxi", 10000, group, paidBy, splits)
    \/ \E c \in Calls : PopulateExpense(c)
    \/ \E c \in Calls, u \in Users, id \in 1..MaxExpenses : DeleteFind(c, u, id)
    \/ \E c \in Calls : DeleteOne(c)
    \/ \E c \in Calls, u \in Users, id \in 1..MaxExpenses,
          description \in {"", "Dinner out"}, amount \in {0, 20000},
          splits \in {NoSplits} \cup BodySplits :
           UpdateFind(c, u, id, description, amount, splits)
    \/ \E c \in Calls : UpdateSave(c)
    \/ \E c \in Calls : UpdateReload(c)
    \/ \E c \in Calls, u \in Users, g \in 1..MaxGroups : GetGroupFind(c, u, g)
    \/ \E c \in Calls : GetGroupExpenses(c)

SpecExpenses == InitExpenses /\ [][NextExpenses]_vars

----------------------------------------------------------------------------
(* The friend views: GET /api/auth/friends and GET /api/expenses/friends/:friendId *)

FriendNotFound == [code |-> 404, msg |-> "Friend not found"]

\* Expense.find({ $or: [{ paidBy: me, 'splits.user': friend },
\*                      { paidBy: friend, 'splits.user': me }] })
BetweenFriends(db, me, friend) ==
    SelectSeq(db, LAMBDA exp :
        \/ exp.paidBy = me /\ \E k \in DOMAIN exp.splits : exp.splits[k].user = friend
        \/ exp.paidBy = friend /\ \E k \in DOMAIN exp.splits : exp.splits[k].user = me)

\* exp.splits.find(s => s.user === who): the amount of the first such split,
\* nothing when there is none
FirstSplitAmount(splits, who) ==
    LET hits == {k \in DOMAIN splits : splits[k].user = who}
    IN  IF hits = {} THEN 0
        ELSE splits[CHOOSE k \in hits : \A l \in hits : k <= l].amount

\* mutant: what I paid counts in full
FriendBalanceFullAmount(expenses, me, friend) ==
    LET balance[n \in 0..Len(expenses)] ==
            IF n = 0 THEN Zero
            ELSE IF expenses[n].paidBy = me
            THEN Plus(balance[n - 1], Number(expenses[n].amount))
            ELSE Minus(balance[n - 1],
                       Number(FirstSplitAmount(expenses[n].splits, me)))
    IN  balance[Len(expenses)]

\* let balance = 0; expenses.forEach(...): positive means the friend owes me
FriendBalance(expenses, me, friend) ==
    LET balance[n \in 0..Len(expenses)] ==
            IF n = 0 THEN Zero
            ELSE IF expenses[n].paidBy = me
            THEN Plus(balance[n - 1],
                      Number(FirstSplitAmount(expenses[n].splits, friend)))
            ELSE Minus(balance[n - 1],
                       Number(FirstSplitAmount(expenses[n].splits, me)))
    IN  balance[Len(expenses)]

\* an answered request of the friend views: who asked, about which friend
ServedFriend(userId, friendId, response) ==
    [IdleCall EXCEPT !.pc = "done", !.userId = userId, !.arg = friendId,
                     !.res = response]

\* res.json(friendsWithBalances) of GET /api/auth/friends; found[k] is what
\* Expense.find answered for friends[k], and stays in snap
FriendsAnswer(userId, friends, found) ==
    [ServedFriend(userId, "",
         [code |-> 200, msg |-> "friends",
          friends |-> [k \in DOMAIN friends |->
              [id |-> friends[k],
               balance |-> FriendBalance(found[k], userId, friends[k])]]])
     EXCEPT !.snap = [found |-> found]]

\* GET /api/auth/friends: User.findById(req.user.id).populate('friends'), and
\* one Expense.find sent for every friend
GetFriendsFind(c, userId) ==
    /\ MayCall(c, userId)
    /\ \/ LET friends == accounts[userId].friends IN
          calls' = [calls EXCEPT ![c] =
              IF friends = <<>> THEN FriendsAnswer(userId, friends, <<>>)
              ELSE [IdleCall EXCEPT
                       !.pc = "friendBalances", !.userId = userId,
                       !.snap = [friends |-> friends,
                                 found |-> [k \in DOMAIN friends |-> <<>>]]]]
       \/ \* the store call throws
          calls' = [calls EXCEPT ![c] = ServedFriend(userId, "", ServerError)]
    /\ UNCHANGED <<storeVars, swVars, runs, balVars, accounts, sessions, clock>>

\* GET /api/auth/friends: the Expense.find of the k-th friend is answered, in
\* store order; Promise.all resolves with the last answer and rejects with the
\* first rejection
GetFriendsBalance(c, k) ==
    /\ calls[c].pc = "friendBalances"
    /\ k \in DOMAIN calls[c].snap.friends
    /\ calls[c].snap.found[k] = <<>>
    /\ LET userId == calls[c].userId
           friends == calls[c].snap.friends
           found == [calls[c].snap.found EXCEPT ![k] =
                        <<BetweenFriends(expenseDb, userId, friends[k])>>]
       IN  \/ calls' = [calls EXCEPT ![c] =
                  IF \A l \in DOMAIN found : found[l] # <<>>
                  THEN FriendsAnswer(userId, friends,
                                     [l \in DOMAIN found |-> found[l][1]])
                  ELSE [calls[c] EXCEPT !.snap.found = found]]
           \/ \* the store call throws
              calls' = [calls EXCEPT ![c] = ServedFriend(userId, "", ServerError)]
    /\ UNCHANGED <<storeVars, swVars, runs, balVars, accounts, sessions, clock>>

\* GET /api/expenses/friends/:friendId: User.findById(friendId); the id of
\* nobody is answered like an id that is none
GetFriendExpensesFind(c, userId, friendId) ==
    /\ MayCall(c, userId)
    /\ \/ calls' = [calls EXCEPT ![c] =
              IF friendId \notin DOMAIN accounts
              THEN ServedFriend(userId, friendId, FriendNotFound)
              ELSE [IdleCall EXCEPT !.pc = "friendExpenses", !.userId = userId,
                                    !.arg = friendId]]
       \/ \* the store call throws
          calls' = [calls EXCEPT ![c] = ServedFriend(userId, friendId, ServerError)]
    /\ UNCHANGED <<storeVars, swVars, runs, balVars, accounts, sessions, clock>>

\* GET /api/expenses/friends/:friendId: Expense.find({ $or }).sort({ date: -1 }),
\* the balance over what it answered, and res.json({ friend, expenses, balance })
GetFriendExpenses(c) ==
    /\ calls[c].pc = "friendExpenses"
    /\ LET userId == calls[c].userId
           friendId == calls[c].arg
       IN  \/ \E expenses \in SortByDateDesc(
                                  BetweenFriends(expenseDb, userId, friendId)) :
                  calls' = [calls EXCEPT ![c] =
                      ServedFriend(userId, friendId,
                          [code |-> 200, msg |-> "friend",
                           expenses |-> expenses,
                           balance |-> FriendBalance(expenses, userId, friendId)])]
           \/ \* the store call throws
              calls' = [calls EXCEPT ![c] =
                  ServedFriend(userId, friendId, ServerError)]
    /\ UNCHANGED <<storeVars, swVars, runs, balVars, accounts, sessions, clock>>

\* an expense of u3 with two splits of the same user
Rounds ==
    [description |-> "Rounds", amount |-> 6000, date |-> 0 - 7 * Day, paidBy |-> "u3",
     group |-> NoGroup, addedBy |-> NoUser,
     splits |-> <<[user |-> "u1", amount |-> 3000],
                  [user |-> "u1", amount |-> 2000],
                  [user |-> "u2", amount |-> 1000]>>]

\* an expense of u1 that u1 has no split of
Loan ==
    [description |-> "Loan", amount |-> 7000, date |-> 0 - 6 * Day, paidBy |-> "u1",
     group |-> NoGroup, addedBy |-> NoUser,
     splits |-> <<[user |-> "u3", amount |-> 4000],
                  [user |-> "u2", amount |-> 3000]>>]

\* what u1 paid for u2: 0.10 and 0.20 at one instant, 0.30 two days later
Small(description, amount, date) ==
    [description |-> description, amount |-> amount, date |-> date,
     paidBy |-> "u1", group |-> NoGroup, addedBy |-> NoUser,
     splits |-> <<[user |-> "u2", amount |-> amount]>>]

Tenth == Small("Stamp", 100, 0 - 5 * Day)
Fifth == Small("Gum", 200, 0 - 5 * Day)
Third == Small("Pen", 300, 0 - 3 * Day)

\* the expenses of the friend views, in the order they were stored in
FriendExpenses ==
    <<Dinner, Settlement, PaidByOther, Rounds, Loan, Tenth, Fifth, Third>>

\* the stored expenses: up to MaxFriendExpenses of them
FriendLedgers ==
    {[k \in DOMAIN picked |-> FriendExpenses[picked[k]]] :
        picked \in {q \in SeqsUpTo(DOMAIN FriendExpenses, MaxFriendExpenses) :
                       \A i, j \in DOMAIN q : i < j => q[i] < q[j]}}

InitFriendView ==
    /\ IdleBal
    /\ userDb = [u \in MigUsers |-> NewUser]
    /\ groupDb = <<SharedTrip>>
    /\ expenseDb \in FriendLedgers
    /\ swGroups = <<>>
    /\ swExpenses = <<>>
    /\ swDeleted = <<>>
    /\ runs = [r \in Reqs |-> IdleRun]
    /\ accounts = [id \in DOMAIN ThreeAccounts |->
                      [ThreeAccounts[id] EXCEPT !.friends =
                          IF id = "u1" THEN <<"u2", "u3">>
                          ELSE IF id = "u2" THEN <<"u1", "u3">>
                          ELSE <<"u1", "u2">>]]
    /\ sessions = Users
    /\ calls = [c \in Slots |-> IdleCall]
    /\ clock = 0

NextFriendView ==
    \/ \E c \in Calls, u \in Users : GetFriendsFind(c, u)
    \/ \E c \in Calls, k \in 1..2 : GetFriendsBalance(c, k)
    \/ \E c \in Calls, u \in Users, f \in Users \cup {"u9"} :
           GetFriendExpensesFind(c, u, f)
    \/ \E c \in Calls : GetFriendExpenses(c)
    \/ \E c \in Calls, u \in Users, splits \in BodySplits :
           CreateExpense(c, u, "Taxi", 10000, NoGroup, NoUser, splits)
    \/ \E c \in Calls : PopulateExpense(c)

SpecFriendView == InitFriendView /\ [][NextFriendView]_vars

----------------------------------------------------------------------------
(* Properties of group membership (checked under SpecGroups) *)

\* C14: no user is both in members and in pastMembers of a group.
C14_MembersPastDisjoint ==
    \A g \in DOMAIN groupDb :
        Range(groupDb[g].members) \cap Range(groupDb[g].pastMembers) = {}

\* a member left owing or owed, another user joined, and the migration made
\* a second group
C14_Witness ==
    /\ Len(groupDb) = 2
    /\ groupDb[2].note = "Imported from Splitwise"
    /\ groupDb[1].pastMembers # <<>>
    /\ \E c, d \in Calls :
           /\ calls[c].res = GroupAnswer("left")
           /\ calls[d].res = GroupAnswer("joined")

\* what userId paid for the group's expenses
RECURSIVE PaidInGroup(_, _, _)
PaidInGroup(expenses, gid, userId) ==
    IF expenses = <<>> THEN 0
    ELSE (IF Head(expenses).group = gid /\ Head(expenses).paidBy = userId
          THEN Head(expenses).amount ELSE 0)
         + PaidInGroup(Tail(expenses), gid, userId)

\* the split amounts of userId in the group's expenses
RECURSIVE ShareInGroup(_, _, _)
ShareInGroup(expenses, gid, userId) ==
    IF expenses = <<>> THEN 0
    ELSE (IF Head(expenses).group = gid
          THEN SplitsOwed(Head(expenses).splits, userId) ELSE 0)
         + ShareInGroup(Tail(expenses), gid, userId)

\* C15: a leave that is saved removes the user from members and puts the user
\* in pastMembers exactly when what they paid and their own splits, over the
\* expenses the group has when the user has left, differ by more than 0.01.
C15_LeaveKeepsDebtorsAsPast ==
    [][\A c \in Calls :
          (calls[c].pc = "leaveSave" /\ calls'[c].res = GroupAnswer("left"))
              => LET u == calls[c].userId
                     g == calls[c].gid
                     balance == PaidInGroup(expenseDb, g, u)
                                    - ShareInGroup(expenseDb, g, u)
                 IN  /\ u \notin Range(groupDb'[g].members)
                     /\ u \in Range(groupDb'[g].pastMembers)
                            <=> (balance > 10 \/ balance < 0 - 10)]_vars

----------------------------------------------------------------------------
(* Properties of friends and accounts (checked under SpecFriends, SpecAccounts,
   SpecPromotion) *)

\* no add-friend request is between its checks and its answer, and none
\* ended after one of its two writes
NoFriendRequestOpen ==
    \A c \in Calls :
        /\ calls[c].pc \in {"idle", "done"}
        /\ calls[c].arg # "one link written"

\* C16: whenever every add-friend request has made both its writes or none,
\* A is in B's friends list if and only if B is in A's.
C16_FriendsSymmetric ==
    NoFriendRequestOpen
        => \A a, b \in DOMAIN accounts :
               (b \in Range(accounts[a].friends))
                   <=> (a \in Range(accounts[b].friends))

\* a newly registered user and the promoted ghost have become friends, and so
\* have the new user and the first one
C16_Witness ==
    /\ DOMAIN accounts = Users
    /\ ~accounts["u2"].isGhostUser
    /\ "u3" \in Range(accounts["u2"].friends)
    /\ "u1" \in Range(accounts["u3"].friends)
    /\ \A c \in Calls : calls[c].res = FriendAdded

\* a registration turns the ghost account id into a full account
PromotionOf(id) == accounts[id].isGhostUser /\ ~accounts'[id].isGhostUser

\* what a promotion leaves alone besides the linkage fields: the user's id,
\* email, friend links and reset token, every other user, groups and expenses
PromotionKeeps(id) ==
    /\ DOMAIN accounts' = DOMAIN accounts
    /\ accounts'[id].email = accounts[id].email
    /\ accounts'[id].friends = accounts[id].friends
    /\ accounts'[id].resetPasswordToken = accounts[id].resetPasswordToken
    /\ accounts'[id].resetPasswordExpire = accounts[id].resetPasswordExpire
    /\ \A other \in DOMAIN accounts \ {id} : accounts'[other] = accounts[other]
    /\ groupDb' = groupDb
    /\ expenseDb' = expenseDb

\* C17 (as claimed): a promotion keeps the user id, the friend links, the
\* group memberships and the expense references, and modifies no field but
\* the credentials, the display name and the ghost flag.
C17_PromotionPreservesData_Original ==
    [][\A id \in DOMAIN accounts :
          PromotionOf(id) => (PromotionKeeps(id) /\ userDb' = userDb)]_vars

\* C17 (amended): ... and modifies no field but the credentials, the display
\* name, the ghost flag and the migration status; the status becomes 'none'
\* when the registration read another status and is otherwise left as stored.
C17_PromotionPreservesData ==
    [][\A id \in DOMAIN accounts :
          PromotionOf(id)
              => /\ PromotionKeeps(id)
                 /\ \E c \in Visitors :
                        /\ calls[c].pc = "registerSave"
                        /\ calls[c].userId = id
                        /\ calls'[c].res.code = 200
                        /\ userDb' =
                               IF "splitwiseMigrationStatus"
                                      \in calls[c].snap.modified
                               THEN [userDb EXCEPT
                                        ![id].splitwiseMigrationStatus = "none"]
                               ELSE userDb]_vars

\* the ghost reset its password, signed in and migrated, and was promoted
\* afterwards: same id and friends, new credentials, status back to 'none'
C17_Witness ==
    /\ runs[1].pc = "done"
    /\ ~accounts["u2"].isGhostUser
    /\ accounts["u2"].username = "gil"
    /\ accounts["u2"].password = Hash("pw1")
    /\ accounts["u2"].friends = <<"u1">>
    /\ userDb["u2"].splitwiseToken = "tok-good"
    /\ userDb["u2"].splitwiseMigrationStatus = "none"

\* String.prototype.toLowerCase on the addresses of the model
Lower(email) == IF email = "Gil@x.io" THEN "gil@x.io" ELSE email

\* C18: no two users have emails that are equal ignoring letter case (a
\* registration whose email differs only in case from a ghost's promotes the
\* ghost and creates no second user).
C18_EmailIdentityIgnoresCase ==
    \A a, b \in DOMAIN accounts :
        a # b => Lower(accounts[a].email) # Lower(accounts[b].email)

----------------------------------------------------------------------------
(* Properties of the expenses routes and the group view (checked under
   SpecExpenses) *)

\* call c was answered in this step
AnsweredNow(c) == calls[c].pc # "done" /\ calls'[c].pc = "done"

\* the answered POST /api/expenses request c added the expense that request d
\* is answered about in this step
AddedBefore(c, d) ==
    /\ calls[c].pc = "done"
    /\ calls[c].res = ExpenseAnswer("added")
    /\ AnsweredNow(d)
    /\ calls'[d].gid = calls[c].gid

\* C19: an expense is edited or deleted only by the user who added it, whoever
\* paid; an edit or delete request from any other user is rejected and leaves
\* the expense unchanged.
C19_OnlyUploaderEditsOrDeletes ==
    [][\A c, d \in Calls :
          AddedBefore(c, d) =>
              /\ calls'[d].res \in {ExpenseRemoved, ExpenseAnswer("edited")}
                     => calls'[d].userId = calls[c].userId
              /\ calls'[d].res \in {NotUploader("edit"), NotUploader("delete")}
                     => /\ calls'[d].userId # calls[c].userId
                        /\ expenseDb' = expenseDb]_vars

\* sum of incoming minus sum of outgoing of memberId in a netted matrix
RECURSIVE NetOver(_, _, _)
NetOver(pw, memberId, others) ==
    IF others = {} THEN Zero
    ELSE LET o == CHOOSE x \in others : TRUE
         IN  Plus(Minus(Entry(pw, o, memberId), Entry(pw, memberId, o)),
                  NetOver(pw, memberId, others \ {o}))

NetPosition(expenses, members, memberId) ==
    NetOver(computeBalances(expenses, members), memberId,
            Range(members) \ {memberId})

\* C20: the balance the group-detail request returns for every active or past
\* member equals the member's net position (incoming minus outgoing) from
\* computeBalances over the same expenses and member list, also when the
\* splits of an expense do not sum to its amount.
C20_GroupViewIsNetPosition ==
    [][\A c \in Calls :
          (AnsweredNow(c) /\ calls'[c].res.code = 200
                          /\ calls'[c].res.msg = "group")
              => LET group == calls[c].snap
                     everyone == group.members \o group.pastMembers
                 IN  \A m \in Range(everyone) :
                         calls'[c].res.balances[m] =
                             NetPosition(calls'[c].res.expenses, everyone, m)]_vars

----------------------------------------------------------------------------
(* The netting scenario of the specification (checked under SpecBal) *)

ScenarioCall == bExpenses = Scenario /\ bPhase # "input"

AsSet(rows) == {rows[k] : k \in DOMAIN rows}

\* C21 (as claimed): on the scenario computeBalances returns B->A = 20,
\* C->A = 10 and every other entry 0, and A's summary is owedBy = [B:20, C:10],
\* owes = [], net +30.
C21_ScenarioResult_Original ==
    ScenarioCall =>
        /\ pairwise = [u1 |-> [u2 |-> Zero, u3 |-> Zero],
                       u2 |-> [u1 |-> Number(20000), u3 |-> Zero],
                       u3 |-> [u1 |-> Number(10000), u2 |-> Zero]]
        /\ (bPhase = "summarised" /\ "u1" \in DOMAIN summaries) =>
              /\ AsSet(summaries["u1"].owedBy)
                    = {[member |-> "u2", amount |-> Number(20000)],
                       [member |-> "u3", amount |-> Number(10000)]}
              /\ summaries["u1"].owes = <<>>
              /\ Minus(SumAmounts(summaries["u1"].owedBy),
                       SumAmounts(summaries["u1"].owes)) = Number(30000)

\* C21 (amended): on the scenario computeBalances returns A->B = 10,
\* C->A = 10 and every other entry 0, and A's summary is owes = [B:10],
\* owedBy = [C:10], net 0.
C21_ScenarioResult ==
    ScenarioCall =>
        /\ pairwise = [u1 |-> [u2 |-> Number(10000), u3 |-> Zero],
                       u2 |-> [u1 |-> Zero, u3 |-> Zero],
                       u3 |-> [u1 |-> Number(10000), u2 |-> Zero]]
        /\ (bPhase = "summarised" /\ "u1" \in DOMAIN summaries) =>
              /\ summaries["u1"].owes
                    = <<[member |-> "u2", amount |-> Number(10000)]>>
              /\ summaries["u1"].owedBy
                    = <<[member |-> "u3", amount |-> Number(10000)]>>
              /\ Minus(SumAmounts(summaries["u1"].owedBy),
                       SumAmounts(summaries["u1"].owes)) = Zero

\* the scenario was computed and summarised with the member list A, B, C
C21_Witness ==
    /\ bExpenses = Scenario
    /\ bMembers = <<"u1", "u2", "u3">>
    /\ bPhase = "summarised"
    /\ pairwise["u1"]["u2"] = Number(10000)
    /\ Len(summaries["u1"].owes) = 1

\* what the splits of the expense list charge, for the pairs of the member
\* list only
MemberObligations(expenses, members) ==
    [d \in Range(members) |->
        [c \in Range(members) \ {d} |-> GrossOwed(expenses, d, c)]]

OutsideSplit(exp, members) ==
    \E k \in DOMAIN exp.splits : exp.splits[k].user \notin Range(members)

\* C22: computeBalances returns a matrix (it never raises) whose keys are the
\* supplied members only; a split adds its amount to matrix[debtor][payer]
\* exactly when debtor and payer differ and are both in the member list, so
\* the result is the netting of exactly those obligations.
C22_AbsentUsersExcluded ==
    bPhase = "computed" =>
        /\ DOMAIN pairwise = Range(bMembers)
        /\ \A m \in Range(bMembers) : DOMAIN pairwise[m] = Range(bMembers) \ {m}
        /\ pairwise = NetPass(MemberObligations(bExpenses, bMembers), bMembers)

\* a call with an expense paid by a user outside the member list, a split of
\* a user outside the list in a member's expense, and a debt left in the matrix
C22_Witness ==
    /\ bPhase = "computed"
    /\ \E k \in DOMAIN bExpenses :
          /\ bExpenses[k].paidBy \notin Range(bMembers)
          /\ bExpenses[k].splits # <<>>
          /\ ~OutsideSplit(bExpenses[k], bMembers)
    /\ \E k \in DOMAIN bExpenses :
          /\ bExpenses[k].paidBy \in Range(bMembers)
          /\ OutsideSplit(bExpenses[k], bMembers)
    /\ \E p \in MemberPairs : Gt(pairwise[p[1]][p[2]], Zero)

\* the other members across the threshold on each side of member m, with the
\* matrix amounts
Outgoing(m) ==
    {[member |-> x, amount |-> pairwise[m][x]] :
        x \in {y \in Range(bMembers) \ {m} :
                  Gt(pairwise[m][y], Threshold)}}

Incoming(m) ==
    {[member |-> x, amount |-> pairwise[x][m]] :
        x \in {y \in Range(bMembers) \ {m} :
                  Gt(pairwise[y][m], Threshold)}}

\* C23: the summary of member M lists under owes exactly the other members X
\* with matrix[M][X] > 0.005 and under owedBy exactly those with
\* matrix[X][M] > 0.005, each once with the matrix amount; the mail reports M
\* as fully settled exactly when both lists are empty, and otherwise its net
\* is sum(owedBy) - sum(owes), the sums taken in list order.
C23_SummaryListsAndNet ==
    bPhase \in {"summarised", "mailed"} =>
        \A m \in Range(GroupMembers) :
            /\ DOMAIN summaries = Range(GroupMembers)
            /\ AsSet(summaries[m].owes) = Outgoing(m)
            /\ Len(summaries[m].owes) = Cardinality(Outgoing(m))
            /\ AsSet(summaries[m].owedBy) = Incoming(m)
            /\ Len(summaries[m].owedBy) = Cardinality(Incoming(m))
            /\ bPhase = "mailed" =>
                  /\ mailBodies[m].settled <=> Outgoing(m) = {} /\ Incoming(m) = {}
                  /\ ~mailBodies[m].settled =>
                        mailBodies[m].net = Minus(SumAmounts(summaries[m].owedBy),
                                                  SumAmounts(summaries[m].owes))

\* mails of one call: one member settled because the only entry is below the
\* threshold, another owed by a third, and an entry listed that is above the
\* threshold by the rounding of a subtraction only

\* mails of one call: one member settled, another owed an amount that is
\* above the threshold by the rounding of a subtraction only
C23_Witness ==
    /\ bPhase = "mailed"
    /\ \E m \in DOMAIN mailBodies : mailBodies[m].settled
    /\ \E m \in DOMAIN mailBodies :
          /\ ~mailBodies[m].settled
          /\ summaries[m].owedBy # <<>>
          /\ Gt(summaries[m].owedBy[1].amount, Threshold)
          /\ ~Gt(summaries[m].owedBy[1].amount, Number(SummaryThreshold + 1))
          /\ Gt(mailBodies[m].net, Zero)

----------------------------------------------------------------------------
(* Properties of one migration (checked under SpecImport and Spec) *)

\* run r answers with the success summary in this step
SummaryNow(r) == runs[r].pc = "markCompleted" /\ runs'[r].res.code = 200

\* a stored expense of the local group of foreign group g carries the
\* description and the absolute cost of the foreign expense
StoredFor(db, userId, g, swExp) ==
    \E x \in DOMAIN db :
        /\ db[x].description = DescriptionOf(swExp)
        /\ db[x].amount = Abs(ParseFloat(swExp.cost).val)
        /\ db[x].group = FindGroup(groupDb, TargetName(swGroups[g]), userId)

\* C24: the expenses of a foreign group are fetched page after page, so that
\* when a run without fetch failures returns its summary, every foreign expense
\* of every group that is not soft-deleted and has a nonzero cost is stored
\* (imported by the run or already there), also when the group holds more
\* expenses than one request returns.
C24_PagedImportIsComplete ==
    [][\A r \in Reqs :
          (SummaryNow(r) /\ runs[r].skipped = {})
              => \A g \in DOMAIN swGroups :
                     \A k \in DOMAIN swExpenses[g] :
                         Importable(swExpenses[g][k])
                             => StoredFor(expenseDb, runs[r].userId, g,
                                          swExpenses[g][k])]_vars

\* the absolute value of a foreign cost, in thousandths; 0 when it is zero
\* or no number
AbsCost(cost) ==
    CASE cost = "10.00"  -> 10000
      [] cost = "-10.00" -> 10000
      [] cost = "25.5"   -> 25500
      [] OTHER           -> 0

\* the foreign users of the expense that resolve to a local user: the identity
\* of the token, and the members of the group that have an email
MappableUsers(swGroup, swExp) ==
    {k \in DOMAIN swExp.users :
        \/ swExp.users[k].user_id = SwMe.id
        \/ \E m \in Range(swGroup.members) :
               m.id = swExp.users[k].user_id /\ m.email # ""}

\* run r is at a foreign expense none of whose users resolves
AtUnmappedExpense(r) ==
    /\ runs[r].pc \in {"findExpense", "saveExpense"}
    /\ MappableUsers(swGroups[runs[r].gi],
                     GetExpenses(runs[r].gi)[runs[r].ei]) = {}

\* C25: a foreign expense none of whose participants maps to a local user is
\* still imported: unless it is found stored already or the store fails, the
\* run inserts it with the single split that charges the migrating user the
\* full amount, and no user is created for the participant.
C25_UnmappedExpenseChargesMigrator ==
    [][\A r \in Reqs :
          AtUnmappedExpense(r) =>
              LET swExp == GetExpenses(runs[r].gi)[runs[r].ei]
                  userId == runs[r].userId
              IN  /\ accounts' = accounts
                  /\ DOMAIN userDb' = DOMAIN userDb
                  /\ (runs[r].pc = "findExpense" /\ runs'[r] # runs[r])
                        => \/ runs'[r].pc = "saveExpense"
                           \/ runs'[r].res.code = 500
                           \/ StoredFor(expenseDb, userId, runs[r].gi, swExp)
                  /\ (runs[r].pc = "saveExpense" /\ runs'[r] # runs[r])
                        => \/ runs'[r].res.code = 500 /\ expenseDb' = expenseDb
                           \/ /\ Len(expenseDb') = Len(expenseDb) + 1
                              /\ expenseDb'[Len(expenseDb')].amount
                                    = AbsCost(swExp.cost)
                              /\ expenseDb'[Len(expenseDb')].splits
                                    = <<[user |-> userId,
                                         amount |-> AbsCost(swExp.cost)]>>]_vars

\* the run finished after importing, in group Trip, the expense that only the
\* member without email took part in
C25_Witness ==
    /\ runs[1].res.code = 200
    /\ \E g \in DOMAIN swGroups, x \in DOMAIN expenseDb :
          /\ swGroups[g].name = "Trip"
          /\ SwNoEmail \in Range(swGroups[g].members)
          /\ \E k \in DOMAIN swExpenses[g] : swExpenses[g][k].users = NoEmailUsers
          /\ expenseDb[x].description = "Splitwise Migrated"
          /\ expenseDb[x].amount = 25500
          /\ expenseDb[x].splits = <<[user |-> "u1", amount |-> 25500]>>
          /\ groupDb[expenseDb[x].group].name = "Trip"

\* the local users that hold the email of a foreign user
ResolvedFor(accs, swUser) == {v \in DOMAIN accs : accs[v].email = swUser.email}

\* C26: when a run returns its summary, the local group of every foreign
\* group it imported has among its members the migrating user and, for every
\* other foreign member with an email, a local user with that email.
C26_MembersResolved ==
    [][\A r \in Reqs :
          SummaryNow(r) =>
              \A g \in DOMAIN swGroups \ runs[r].skipped :
                  LET local == FindGroup(groupDb, TargetName(swGroups[g]),
                                         runs[r].userId)
                  IN  /\ local # 0
                      /\ \A m \in Range(swGroups[g].members) :
                             (m.id # SwMe.id /\ m.email # "")
                                 => \E v \in ResolvedFor(accounts, m) :
                                        v \in Range(groupDb[local].members)]_vars

\* the friends get_friends lists for the identity of the token
SwFriends == <<SwBob, SwNoEmail>>

\* C27: when a run returns its summary, for every foreign friend with an
\* email the migrating user and a local user with that email have each other
\* in their friends lists.
C27_FriendsLinked ==
    [][\A r \in Reqs :
          SummaryNow(r) =>
              \A f \in Range(SwFriends) :
                  f.email # ""
                      => \E v \in ResolvedFor(accounts', f) :
                             /\ v \in Range(accounts'[runs[r].userId].friends)
                             /\ runs[r].userId \in Range(accounts'[v].friends)]_vars

Running(r) == runs[r].pc \notin {"idle", "done"}

\* C28: a run returns its success summary with the user's status 'completed',
\* with expensesCount the number of Expense records the run inserted (the run
\* counts one per insertion, from zero, and nothing else) and with groupsCount
\* the number of foreign groups whose expenses it fetched and went through.
C28_SummaryCounts ==
    [][\A r \in Reqs :
          /\ (runs[r].pc = "idle" /\ Running(r)') => runs'[r].totalExpenses = 0
          /\ (Running(r) /\ Running(r)')
                => runs'[r].totalExpenses - runs[r].totalExpenses
                       = Len(expenseDb') - Len(expenseDb)
          /\ (Running(r) /\ ~Running(r)') => expenseDb' = expenseDb
          /\ SummaryNow(r)
                => /\ userDb'[runs[r].userId].splitwiseMigrationStatus = "completed"
                   /\ runs'[r].res.expensesCount = runs[r].totalExpenses
                   /\ runs'[r].res.groupsCount
                         = Len(swGroups) - Cardinality(runs[r].skipped)]_vars

\* a summary of one group and one expense, for two foreign groups holding two
\* expenses: one group was skipped and one expense was not inserted
C28_Witness ==
    /\ runs[1].res.code = 200
    /\ runs[1].res.groupsCount = 1
    /\ runs[1].res.expensesCount = 1
    /\ Len(swGroups) = 2
    /\ SumLen(swExpenses, 2) = 2
    /\ \E g \in DOMAIN swGroups : Len(swExpenses[g]) = 2
    /\ userDb["u1"].splitwiseMigrationStatus = "completed"

\* C29: a failure while importing an individual expense (the duplicate check
\* or the save) does not end the run with a failure answer.
C29_ExpenseFailureAbsorbed ==
    [][\A r \in Reqs :
          runs[r].pc \in {"findExpense", "saveExpense"}
              => ~(runs'[r].pc = "done" /\ runs'[r].res.code = 500)]_vars

\* C30: every Expense record the pipeline creates is for a foreign expense
\* that is not soft-deleted and whose cost is a number other than zero, and its
\* amount is the absolute value of that cost, which is strictly positive.
C30_OnlyLiveNonzeroImported ==
    [][expenseDb' # expenseDb =>
          \E r \in Reqs :
              /\ runs[r].pc = "saveExpense"
              /\ LET swExp == swExpenses[runs[r].gi][runs[r].ei] IN
                 /\ ~swExp.deleted_at
                 /\ AbsCost(swExp.cost) > 0
                 /\ expenseDb' = Append(expenseDb, expenseDb'[Len(expenseDb')])
                 /\ expenseDb'[Len(expenseDb')].amount = AbsCost(swExp.cost)
                 /\ expenseDb'[Len(expenseDb')].description
                       = DescriptionOf(swExp)]_vars

\* a finished run that inserted the expense of cost -10.00 as 10.00 and
\* nothing for the soft-deleted, zero or unparseable expense next to it
C30_Witness ==
    /\ runs[1].res.code = 200
    /\ runs[1].res.expensesCount = 1
    /\ \E g \in DOMAIN swGroups :
          /\ \E k \in DOMAIN swExpenses[g] : swExpenses[g][k].cost = "-10.00"
          /\ \E k \in DOMAIN swExpenses[g] : ~Importable(swExpenses[g][k])
    /\ \E x \in DOMAIN expenseDb :
          expenseDb[x].amount = 10000 /\ expenseDb[x].date = ParseDate("2024-01-06T00:00:00Z")
    /\ \A x \in DOMAIN expenseDb : expenseDb[x].amount > 0

----------------------------------------------------------------------------
(* Payer and splits of imported expenses (checked under SpecImport) *)

\* a foreign share in thousandths
ShareOf(share) ==
    CASE share = "10.00" -> 10000
      [] share = "5.00"  -> 5000
      [] share = "25.5"  -> 25500
      [] OTHER           -> 0

\* the foreign user with this id among the members of the group
ForeignUser(swGroup, id) ==
    CHOOSE m \in Range(swGroup.members) : m.id = id

\* the local user a foreign participant of run r maps to, NoUser if none: the
\* migrating user for the identity of the token, else the user holding the
\* participant's email
LocalOf(r, swGroup, id) ==
    IF id = SwMe.id THEN runs[r].userId
    ELSE IF \E m \in Range(swGroup.members) : m.id = id /\ m.email # ""
    THEN LET hits == ResolvedFor(accounts, ForeignUser(swGroup, id))
         IN  IF hits = {} THEN NoUser ELSE CHOOSE v \in hits : TRUE
    ELSE NoUser

\* run r inserts an expense in this step
InsertsNow(r) ==
    runs[r].pc = "saveExpense" /\ Len(expenseDb') = Len(expenseDb) + 1

\* C31: the payer of every imported expense is the local user mapped from the
\* foreign participant whose paid share is positive, and the migrating user
\* only when that participant maps to no local user.
C31_PayerIsMappedParticipant ==
    [][\A r \in Reqs :
          InsertsNow(r) =>
              LET swGroup == swGroups[runs[r].gi]
                  swExp == swExpenses[runs[r].gi][runs[r].ei]
              IN  \A k \in DOMAIN swExp.users :
                      ShareOf(swExp.users[k].paid_share) > 0 =>
                          LET local == LocalOf(r, swGroup, swExp.users[k].user_id)
                          IN  expenseDb'[Len(expenseDb')].paidBy
                                  = IF local = NoUser THEN runs[r].userId
                                    ELSE local]_vars

\* C32: every imported expense has exactly one split per foreign participant
\* with a positive owed share that maps to a local user, carrying the
\* participant's owed amount, and no split for the others.
C32_SplitsFollowOwedShares ==
    [][\A r \in Reqs :
          InsertsNow(r) =>
              LET swGroup == swGroups[runs[r].gi]
                  swExp == swExpenses[runs[r].gi][runs[r].ei]
                  owing == {k \in DOMAIN swExp.users :
                               /\ ShareOf(swExp.users[k].owed_share) > 0
                               /\ LocalOf(r, swGroup, swExp.users[k].user_id)
                                     # NoUser}
                  splits == expenseDb'[Len(expenseDb')].splits
              IN  owing # {} =>
                      /\ Len(splits) = Cardinality(owing)
                      /\ AsSet(splits)
                            = {[user |-> LocalOf(r, swGroup,
                                                 swExp.users[k].user_id),
                                amount |-> ShareOf(swExp.users[k].owed_share)] :
                                  k \in owing}]_vars

----------------------------------------------------------------------------
(* Frame of a migration on the stored groups (checked under SpecImport) *)

\* C33: no step of a migration run removes a user from the members or the
\* pastMembers of a stored group: every stored group stays, the group a run
\* finds included, with member sets that contain the ones before.
C33_NoMemberRemoved ==
    [][\A g \in DOMAIN groupDb :
          /\ g \in DOMAIN groupDb'
          /\ Range(groupDb[g].members) \subseteq Range(groupDb'[g].members)
          /\ Range(groupDb[g].pastMembers)
                \subseteq Range(groupDb'[g].pastMembers)]_vars

\* a finished run that found the group Trip, which has a past member, imported
\* an expense into it and created a group for another foreign group
C33_Witness ==
    /\ runs[1].res.code = 200
    /\ runs[1].res.groupsCount = 2
    /\ Len(groupDb) = 2
    /\ groupDb[1] = TripAfterLeave
    /\ groupDb[2].note = "Imported from Splitwise"
    /\ \E x \in DOMAIN expenseDb : x > 1 /\ expenseDb[x].group = 1

----------------------------------------------------------------------------
(* Concurrent migrations of two users (checked under SpecTwo) *)

\* the groups after the group steps of a run of userId alone, from foreign
\* group k on
RECURSIVE SoloGroups(_, _, _)
SoloGroups(userId, gdb, k) ==
    IF k > Len(swGroups) THEN gdb
    ELSE LET name == IF swGroups[k].name = "Non-group"
                     THEN "Splitwise: Individuals" ELSE swGroups[k].name
             mine == {g \in DOMAIN gdb :
                         gdb[g].name = name /\ userId \in Range(gdb[g].members)}
         IN  SoloGroups(userId,
                        IF mine # {} THEN gdb
                        ELSE Append(gdb, [name |-> name, members |-> <<userId>>,
                                          pastMembers |-> <<>>,
                                          settleUpDate |-> NoSettleDate,
                                          createdBy |-> userId,
                                          note |-> "Imported from Splitwise"]),
                        k + 1)

\* what user userId sees of the ledger: the own status, the groups the user is
\* a member of and the expenses recorded as paid by the user (as those of the
\* user's imports are), with the group's name for its id
ViewOf(userId, status, gdb, edb) ==
    LET mine == SelectSeq(edb, LAMBDA e : e.paidBy = userId)
    IN  [status |-> status,
         groups |-> SelectSeq(gdb, LAMBDA g : userId \in Range(g.members)),
         expenses |-> [x \in DOMAIN mine |->
                          [description |-> mine[x].description,
                           amount |-> mine[x].amount,
                           date |-> mine[x].date,
                           paidBy |-> mine[x].paidBy,
                           splits |-> mine[x].splits,
                           groupName |-> gdb[mine[x].group].name]]]

\* the expenses userId's run alone adds for the expenses k.. of foreign group
\* gi and the groups after it, given the view's expenses so far
RECURSIVE SoloExpenses(_, _, _, _, _)
SoloExpenses(r, userId, own, gi, k) ==
    IF gi > Len(swGroups) THEN own
    ELSE IF k > Len(swExpenses[gi]) THEN SoloExpenses(r, userId, own, gi + 1, 1)
    ELSE LET swExp == swExpenses[gi][k]
             name == IF swGroups[gi].name = "Non-group"
                     THEN "Splitwise: Individuals" ELSE swGroups[gi].name
             amount == AbsCost(swExp.cost)
             description == IF swExp.description = "" THEN "Splitwise Migrated"
                            ELSE swExp.description
         IN  IF swExp.deleted_at \/ amount = 0
             THEN SoloExpenses(r, userId, own, gi, k + 1)
             ELSE SoloExpenses(r, userId,
                      Append(own,
                          [description |-> description, amount |-> amount,
                           date |-> IF swExp.date = NoDate THEN Today
                                    ELSE ParseDate(swExp.date),
                           paidBy |-> userId,
                           splits |-> <<[user |-> userId, amount |-> amount]>>,
                           groupName |-> name]),
                      gi, k + 1)

\* what the user of request r sees after a run alone that no call failed in,
\* from the store the two requests started on
AloneView(r) ==
    LET userId == TwoUser(r)
        before == ViewOf(userId, "none", <<SharedTrip>>, <<SharedLunch>>)
    IN  [status |-> "completed",
         groups |-> SelectSeq(SoloGroups(userId, <<SharedTrip>>, 1),
                              LAMBDA g : userId \in Range(g.members)),
         expenses |-> SoloExpenses(r, userId, before.expenses, 1, 1)]

\* C34: when two different users have run migrations concurrently and no call
\* of either run failed, each user has the groups, the expenses and the status
\* that the user's run alone produces, however the steps were interleaved.
C34_ConcurrentRunsIndependent ==
    (SucceededWithoutSkip(1) /\ SucceededWithoutSkip(2)) =>
        \A r \in 1..2 :
            ViewOf(TwoUser(r), userDb[TwoUser(r)].splitwiseMigrationStatus,
                   groupDb, expenseDb) = AloneView(r)

\* both runs finished, each having created a group and imported into the
\* shared group Trip, the second user's group stored before the first user's
C34_Witness ==
    /\ SucceededWithoutSkip(1) /\ SucceededWithoutSkip(2)
    /\ Len(groupDb) = 3
    /\ groupDb[2].createdBy = "u2"
    /\ groupDb[3].createdBy = "u1"
    /\ \E x, y \in DOMAIN expenseDb :
          /\ x < y
          /\ 1 < x
          /\ expenseDb[x].paidBy = "u2" /\ expenseDb[x].group = 1
          /\ expenseDb[y].paidBy = "u1" /\ expenseDb[y].group = 1
    /\ \E x, y \in DOMAIN expenseDb :
          /\ x < y
          /\ expenseDb[x].paidBy = "u1" /\ expenseDb[x].group = 1 /\ x > 1
          /\ expenseDb[y].paidBy = "u2"

----------------------------------------------------------------------------
(* The settle-up job (checked under SpecSched) *)

\* the day of the server's calendar that instant t falls on
LocalDay(t, zone) == (t + zone) \div Day

\* the stored groups whose settle-up date is today for the job
DueToday ==
    {g \in DOMAIN groupDb :
        /\ groupDb[g].settleUpDate # NoSettleDate
        /\ LocalDay(groupDb[g].settleUpDate[1], job.zone)
               = LocalDay(job.now, job.zone)}

\* the job has called sendEmail for this address about this group
Attempted(g, email) ==
    \E k \in DOMAIN job.sends : job.sends[k].group = g /\ job.sends[k].email = email

\* no request has stored a settle-up date since the job began: the stored
\* dates are those its Group.find met
NoDateStored == \A c \in Calls : calls[c].res # GroupAnswer("settleUpDate")

\* a send of the finished job was rejected, and no store read of it was
FailedSend ==
    /\ job.pc = "done" /\ ~job.readFailed
    /\ \E k \in DOMAIN job.sends : ~job.sends[k].ok

\* C35: in a scheduler run, a failed email send to one member is non-fatal: a
\* send is still attempted for every active member of that group and of every
\* other group whose settle-up date is today. Of a finished job with a rejected
\* send: every member of every group it fetched has had a send attempted, and
\* every stored group whose settle-up date is on the server's calendar day of
\* the run is among the groups it fetched.
C35_FailedSendNotFatal ==
    (FailedSend /\ NoDateStored) =>
        /\ \A k \in DOMAIN job.groups : \A m \in DOMAIN job.groups[k].members :
               Attempted(job.groups[k].id, job.groups[k].members[m].email)
        /\ \A g \in DueToday : \E k \in DOMAIN job.groups : job.groups[k].id = g

\* a finished job whose first send was rejected and that went on to a later
\* member of the same group and to a member of the other group, while a member
\* left the other group
C35_Witness ==
    /\ FailedSend
    /\ Len(job.sends) >= 3
    /\ ~job.sends[1].ok
    /\ job.sends[2].group = job.sends[1].group
    /\ \E k \in DOMAIN job.sends :
           /\ job.sends[k].group # job.sends[1].group
           /\ job.sends[k].email = "bob@x.io"
           /\ "u2" \notin Range(groupDb[job.sends[k].group].members)

----------------------------------------------------------------------------
(* Termination of a migration run (checked under SpecImportFair) *)

RunResponses == {401, 500, 200}

\* C36: when every call of the run returns, a run that has started ends, and
\* it answers exactly once: nothing is sent before it ends, what it sends is
\* the auth error, the migration failure or the success summary, and an ended
\* run sends nothing more.
C36_RunTerminatesWithOneResponse ==
    /\ (Running(1) ~> runs[1].pc = "done")
    /\ [](runs[1].pc # "done" => runs[1].res = NoResponse)
    /\ [](runs[1].pc = "done" => runs[1].res.code \in RunResponses)
    /\ [][runs[1].pc = "done" => runs'[1] = runs[1]]_vars

\* a run that ended with the success summary after two insertions
C36_Witness ==
    /\ runs[1].pc = "done"
    /\ runs[1].res.code = 200
    /\ runs[1].res.expensesCount = 2

----------------------------------------------------------------------------
(* Friends lists under interleaved add-friend requests (checked under SpecFriends) *)

\* C37: under any interleaving of add-friend requests no friends list holds
\* the same user more than once, and none holds its owner.
C37_FriendsListsAreSets ==
    \A id \in DOMAIN accounts :
        LET friends == accounts[id].friends IN
        /\ \A k, l \in DOMAIN friends : friends[k] = friends[l] => k = l
        /\ id \notin Range(friends)

----------------------------------------------------------------------------
(* The friend views (checked under SpecFriendView) *)

\* what the answered requests of user report toward friend, from either view:
\* the balance, and the expenses it was added up over, in the order of the
\* additions
Reported(user, friend) ==
    {[balance |-> calls[c].res.balance, over |-> calls[c].res.expenses] :
        c \in {d \in Calls :
            /\ calls[d].pc = "done" /\ calls[d].res.code = 200
            /\ calls[d].res.msg = "friend"
            /\ calls[d].userId = user /\ calls[d].arg = friend}}
    \cup
    UNION {{[balance |-> calls[c].res.friends[k].balance,
             over |-> calls[c].snap.found[k]] :
               k \in {l \in DOMAIN calls[c].res.friends :
                         calls[c].res.friends[l].id = friend}} :
           c \in {d \in Calls :
               /\ calls[d].pc = "done" /\ calls[d].res.code = 200
               /\ calls[d].res.msg = "friends"
               /\ calls[d].userId = user}}

\* the same expenses, in whatever order
SameExpenses(exps, others) ==
    /\ Len(exps) = Len(others)
    /\ \E q \in [DOMAIN exps -> DOMAIN exps] :
           /\ \A i, j \in DOMAIN exps : i # j => q[i] # q[j]
           /\ \A i \in DOMAIN exps : exps[i] = others[q[i]]

\* C38 as stated: for any stored expenses and any two users A and B, the
\* balance a friend view computes for A toward B is the negation of the
\* balance a friend view computes for B toward A over the same expenses.
C38_FriendBalanceAntisymmetric_Original ==
    \A a, b \in Users :
        a # b => \A x \in Reported(a, b), y \in Reported(b, a) :
                     SameExpenses(x.over, y.over) => x.balance = Minus(Zero, y.balance)

\* C38, amended: the balance a friend view computes for A toward B is the
\* negation of the balance a friend view computes for B toward A whenever the
\* two were added up over the same expenses in the same order.
C38_FriendBalanceAntisymmetric ==
    \A a, b \in Users :
        a # b => \A x \in Reported(a, b), y \in Reported(b, a) :
                     x.over = y.over => x.balance = Minus(Zero, y.balance)

\* u1 and u2 asked about each other, and both balances were added up over
\* 0.10, 0.20 and 0.30 in this order: more than 0.60 one way, as much less
\* than -0.60 the other way
C38_Witness ==
    \E x \in Reported("u1", "u2"), y \in Reported("u2", "u1") :
        /\ x.over = <<Tenth, Fifth, Third>>
        /\ y.over = x.over
        /\ Gt(x.balance, Number(600))
        /\ x.balance = Minus(Zero, y.balance)

----------------------------------------------------------------------------
(* Leave requests of non-members (checked under SpecGroups) *)

\* request c has passed the membership check of the leave route
LeaveAdmitted(c) == calls[c].pc = "idle" /\ calls'[c].pc = "leave"

\* request c is answered with the error of the leave route
LeaveRejected(c) == calls[c].pc = "idle" /\ calls'[c].res = NotActiveMember

\* C39: a leave request of a user who is not an active member of the group, a
\* past member included, does not pass the membership check; the request that
\* is answered with the error is of such a user and changes neither the
\* members nor the pastMembers of any group.
C39_NonMemberLeaveRejected ==
    [][\A c \in Calls :
          /\ LeaveAdmitted(c)
                => calls'[c].userId \in Range(groupDb[calls'[c].gid].members)
          /\ LeaveRejected(c)
                => /\ calls'[c].userId
                          \notin Range(groupDb[calls'[c].gid].members)
                   /\ groupDb' = groupDb]_vars

\* the leave request of the past member u2 was rejected and the group is as
\* before
C39_Witness ==
    /\ groupDb = <<TripAfterLeave>>
    /\ \E c \in Calls :
          /\ calls[c].pc = "done" /\ calls[c].res = NotActiveMember
          /\ calls[c].userId \in Range(groupDb[calls[c].gid].pastMembers)

====
